---- MODULE Spec2Model ----
(***************************************************************************)
(* Model of the insurance-api CSV import worker (workers/csvProcessor.js,  *)
(* kept in src/unnamed/part_000 lines 334-584) together with the storage   *)
(* collections it reads and writes.                                        *)
(*                                                                         *)
(* Every await on a storage primitive (connect, findOne, create, close) is *)
(* one atomic step of a run; the synchronous code between two awaits is    *)
(* folded into the step that precedes it.  Several runs (worker threads)   *)
(* share only the storage collections.                                     *)
(***************************************************************************)
EXTENDS Integers, Sequences, FiniteSets, TLC

(***************************************************************************)
(* Bounds of the model.                                                    *)
(***************************************************************************)
NumRuns == 2
MaxRows == 2
MaxLongRows == 205

(***************************************************************************)
(* Program constants.                                                      *)
(***************************************************************************)
batchSize == 100
ReportInterval == 50
ErrorsListCap == 10
NoId == 0
NoDate == 0
MaxTime == 3
MaxStarts == 2
MaxSamples == 3
TicksPerMinute == 2
MinutesPerHour == 60
HoursPerDay == 24
DaysPerWeek == 7
threshold == 70
NoResponse == 0
Accepted == 202
BadRequest == 400
ServerError == 500
OK == 200
NotFound == 404

Runs == 1..NumRuns

Min(a, b) == IF a < b THEN a ELSE b

(***************************************************************************)
(* Rows.  A parsed record maps column names to trimmed strings; an empty   *)
(* cell is the empty string, which JavaScript treats as falsy.             *)
(***************************************************************************)
Full ==
  [agent |-> "a1", category_name |-> "l1", company_name |-> "c1",
   firstname |-> "f1", email |-> "e1", dob |-> "1990-05-05",
   account_name |-> "ac1", policy_number |-> "p1",
   policy_start_date |-> "2020-01-01", policy_end_date |-> "2021-01-01"]

NoAgent == [Full EXCEPT !.agent = "", !.policy_number = "p2"]
BadDob == [Full EXCEPT !.dob = "not-a-date", !.policy_number = "p2"]
NoFirst == [Full EXCEPT !.firstname = ""]
NoPolicy == [Full EXCEPT !.policy_number = ""]
BadDate ==
  [Full EXCEPT !.policy_start_date = "not-a-date", !.policy_number = "p3"]
NoAccount == [Full EXCEPT !.account_name = "", !.policy_number = "p2"]
NoLOB == [Full EXCEPT !.category_name = "", !.policy_number = "p2"]
NoCarrier == [Full EXCEPT !.company_name = "", !.policy_number = "p2"]
NoEmail == [Full EXCEPT !.email = "", !.policy_number = "p2"]
OtherDob == [Full EXCEPT !.dob = "05/05/1990", !.policy_number = "p2"]
NoPolicyNoDob == [Full EXCEPT !.policy_number = "", !.dob = ""]
NoFirstNoPolicy == [Full EXCEPT !.firstname = "", !.policy_number = ""]

\* Two different persons whose names and addresses contain the separator
\* of the cache key.
AnnLee ==
  [Full EXCEPT !.firstname = "ann_lee", !.email = "x", !.policy_number = "p2"]
Ann ==
  [Full EXCEPT !.firstname = "ann", !.email = "lee_x", !.policy_number = "p3"]

RowPool == {Full, NoAgent, BadDob, NoFirst, NoPolicy, BadDate, NoAccount}

\* Further rows, used in payloads of two rows.
PairPool == RowPool \cup {NoLOB, NoCarrier, NoEmail, OtherDob, NoPolicyNoDob}

\* A line without content; csv-parse drops it (skip_empty_lines).
BlankLine == [blank |-> TRUE]
IsBlank(line) == "blank" \in DOMAIN line

SeqsUpTo(S, n) == UNION {[1..k -> S] : k \in 0..n}

(***************************************************************************)
(* Payloads (workerData.csvData).  The text is modelled after tokenizing:  *)
(* the empty string, a text csv-parse rejects, or a header followed by the *)
(* data lines.                                                             *)
(***************************************************************************)
EmptyText == [kind |-> "empty", lines |-> << >>]
MalformedText == [kind |-> "malformed", lines |-> << >>]
Text(rows) == [kind |-> "text", lines |-> rows]

SmallPayloads ==
  {EmptyText, MalformedText, Text(<<BlankLine, Full>>)}
    \cup {Text(s) : s \in SeqsUpTo(RowPool, MaxRows)}
    \cup {Text(<<a, b>>) : a, b \in PairPool}

\* Payloads of overlapping runs: one data line each, so that the runs race on
\* the first sighting of the same labels.
OverlapPayloads ==
  {EmptyText, MalformedText, Text(<<BadDob, Full>>)}
    \cup {Text(<<row>>) : row \in {Full, BadDob, NoAgent}}

\* Long payloads: n rows; row k fails validation iff period > 0 divides k.
Patterned(n, period) ==
  Text([k \in 1..n |-> IF period > 0 /\ k % period = 0 THEN NoFirst ELSE Full])

LongLengths == {0, 15, 49, 50, 101, MaxLongRows}
FailPeriods == {0, 1, 3}

\* One row more than a batch; the last row of the first batch and the first
\* row of the second fail validation, the latter without a policy number.
AcrossBatches ==
  Text([k \in 1..(batchSize + 1) |->
          IF k < batchSize THEN Full
          ELSE IF k = batchSize THEN NoFirst ELSE NoFirstNoPolicy])

LongPayloads ==
  {Patterned(n, p) : n \in LongLengths, p \in FailPeriods}
    \cup {AcrossBatches}

TruthyAlways(s) == TRUE

Truthy(s) == s # ""

(***************************************************************************)
(* new Date(str) followed by the isNaN test: the strings the engine        *)
(* parses map to a day number, every other string to "no date".            *)
(***************************************************************************)
DateValue ==
  [s \in {"1990-05-05", "05/05/1990", "2020-01-01", "2021-01-01"} |->
     CASE s = "1990-05-05" -> 7429
       [] s = "05/05/1990" -> 7429
       [] s = "2020-01-01" -> 18262
       [] s = "2021-01-01" -> 18628]

parseDate(s) ==
  IF Truthy(s) /\ s \in DOMAIN DateValue THEN DateValue[s] ELSE NoDate

(***************************************************************************)
(* Instants.  A Date is a number of ticks since a Sunday 00:00:00.000 in   *)
(* local time; a tick is half a minute, so an instant is either the start  *)
(* of a minute or strictly inside one.  Local time has no offset change.   *)
(***************************************************************************)
TicksPerHour == MinutesPerHour * TicksPerMinute
TicksPerDay == HoursPerDay * TicksPerHour

getDay(t) == (t \div TicksPerDay) % DaysPerWeek
getHours(t) == (t % TicksPerDay) \div TicksPerHour
getMinutes(t) == (t % TicksPerHour) \div TicksPerMinute

\* setHours(hours, minutes, 0, 0): same date, seconds and milliseconds zero.
setHours(t, hours, minutes) ==
  (t - (t % TicksPerDay)) + hours * TicksPerHour + minutes * TicksPerMinute

\* setDate(getDate() + days): the calendar date moved by whole days.
setDate(t, days) == t + days * TicksPerDay

dayMap ==
  [sunday |-> 0, monday |-> 1, tuesday |-> 2, wednesday |-> 3,
   thursday |-> 4, friday |-> 5, saturday |-> 6]

validDays == DOMAIN dayMap

MixedCase == [Friday |-> "friday", SUNDAY |-> "sunday"]

toLowerCase(s) == IF s \in DOMAIN MixedCase THEN MixedCase[s] ELSE s

\* A time is the sequence of the characters of the string.
Digits ==
  ("0" :> 0) @@ ("1" :> 1) @@ ("2" :> 2) @@ ("3" :> 3) @@ ("4" :> 4) @@
  ("5" :> 5) @@ ("6" :> 6) @@ ("7" :> 7) @@ ("8" :> 8) @@ ("9" :> 9)

RECURSIVE Number(_)
Number(chars) ==
  IF chars = << >> THEN 0
  ELSE Number(SubSeq(chars, 1, Len(chars) - 1)) * 10
         + Digits[chars[Len(chars)]]

split(chars) ==
  LET colon == CHOOSE k \in 1..Len(chars) : chars[k] = ":"
  IN <<SubSeq(chars, 1, colon - 1), SubSeq(chars, colon + 1, Len(chars))>>

\* /^([0-1][0-9]|2[0-3]):[0-5][0-9]$/
timeRegex(chars) ==
  /\ Len(chars) = 5
  /\ \/ chars[1] \in {"0", "1"} /\ chars[2] \in DOMAIN Digits
     \/ chars[1] = "2" /\ chars[2] \in {"0", "1", "2", "3"}
  /\ chars[3] = ":"
  /\ chars[4] \in {"0", "1", "2", "3", "4", "5"}
  /\ chars[5] \in DOMAIN Digits

getNextScheduledDateSameWeek(day, time, now) ==
  LET targetDay == dayMap[toLowerCase(day)]
      hours == Number(split(time)[1])
      minutes == Number(split(time)[2])
      daysUntilTarget == targetDay - getDay(now)
      targetDate == setHours(now, hours, minutes)
  IN setDate(targetDate,
             IF daysUntilTarget < 0
               THEN daysUntilTarget + DaysPerWeek
               ELSE daysUntilTarget)

getNextScheduledDate(day, time, now) ==
  LET targetDay == dayMap[toLowerCase(day)]
      hours == Number(split(time)[1])
      minutes == Number(split(time)[2])
      currentDay == getDay(now)
      currentHour == getHours(now)
      currentMinute == getMinutes(now)
      daysUntilTarget == targetDay - currentDay
      targetDate == setHours(now, hours, minutes)
  IN setDate(targetDate,
             IF /\ daysUntilTarget = 0
                /\ \/ currentHour > hours
                   \/ currentHour = hours /\ currentMinute >= minutes
               THEN DaysPerWeek
               ELSE IF daysUntilTarget < 0
                 THEN daysUntilTarget + DaysPerWeek
                 ELSE daysUntilTarget)

VARIABLES
  Agent, LOB, Carrier, UserAccount, User, Policy,   \* storage collections
  uniqueIndexes,    \* whether Agent/LOB/Carrier/Policy carry a unique index
  csvData,          \* workerData.csvData of each run
  pc,               \* position of each run in processCSV
  connected,        \* the run's mongoose connection is open
  records,          \* parsed rows
  i, j,             \* batch start and position inside the batch
  processed, errors, errorsList,
  agentCache, lobCache, carrierCache, userCache, accountCache,
  agentId, lobId, carrierId, userId,
  msgs,             \* messages posted on parentPort, in order
  findOneCalls,     \* per run: the filters passed to Model.findOne, in order
  response,         \* status code the upload handler answered with
  listening,        \* worker.on('message', ...) is registered
  delivered,        \* messages of the run the host's event loop dispatched
  hostLog,          \* messages the host's listener handled, in order
  fileRemoved       \* the listener unlinked the uploaded file

VARIABLES
  clock,            \* the current instant (new Date()), in ticks
  ScheduledMessage, \* storage collection; a document's _id is its position
  Message,          \* storage collection of the inserted messages
  jobs,             \* MessageScheduler.jobs: jobId -> timeoutId
  timers,           \* pending timeouts: timeoutId -> the message and due time
  isRunning,        \* MessageScheduler.isRunning
  starts,           \* calls of start() that passed the guard; each left an
                    \* interval and a cron task behind
  loadDue, cronDue, \* interval and cron callbacks due and not yet run
  posts,            \* POST handlers awaiting ScheduledMessage.create
  deletes,          \* DELETE handlers awaiting findById, with what it returned
  loading,          \* loadPendingMessages calls awaiting find, with the result
  cronTodo,         \* cron callbacks in their loop: the messages left
  execs,            \* executeMessage calls awaiting storage
  deleteResponse,   \* the last response of the DELETE handler
  isMonitoring,     \* CPUMonitor.isMonitoring
  monitorInterval,  \* CPUMonitor.monitorInterval is set
  sampling,         \* interval callbacks awaiting getCPUUsage()
  samples,          \* the samples taken, each with what the callback did
  restarts,         \* invocations of the restart callback since it was set
  restartCallback   \* CPUMonitor.restartCallback

scheduler == <<clock, ScheduledMessage, Message, jobs, timers, isRunning,
               starts, loadDue, cronDue, posts, deletes, loading, cronTodo,
               execs, deleteResponse>>
monitor ==
  <<isMonitoring, monitorInterval, sampling, samples, restarts,
    restartCallback>>
services == <<scheduler, monitor>>

storage == <<Agent, LOB, Carrier, UserAccount, User, Policy>>
caches == <<agentCache, lobCache, carrierCache, userCache, accountCache>>
ids == <<agentId, lobId, carrierId, userId>>
counters == <<processed, errors, errorsList>>
position == <<i, j>>
calls == <<findOneCalls>>
host == <<response, listening, delivered, hostLog, fileRemoved>>
importer == <<storage, uniqueIndexes, csvData, pc, connected, records,
              position, counters, caches, ids, msgs, calls, host>>
vars == <<importer, services>>

(***************************************************************************)
(* Storage primitives.  A document's _id is its position in the collection.*)
(***************************************************************************)
First(hits) ==
  IF hits = {} THEN NoId ELSE CHOOSE k \in hits : \A h \in hits : k <= h

\* Agent.findOne({ name: agentName })
findAgent(label) == First({k \in 1..Len(Agent) : Agent[k].name = label})

\* LOB.findOne({ category_name: categoryName })
findLOB(label) == First({k \in 1..Len(LOB) : LOB[k].category_name = label})

\* Carrier.findOne({ company_name: companyName })
findCarrier(label) ==
  First({k \in 1..Len(Carrier) : Carrier[k].company_name = label})

findUserAccountMiss(label) == NoId

\* UserAccount.findOne({ account_name: accountName })
findUserAccount(label) ==
  First({k \in 1..Len(UserAccount) : UserAccount[k].account_name = label})

\* User.findOne({ firstname, email })
findUser(firstname, email) ==
  First({k \in 1..Len(User) :
           User[k].firstname = firstname /\ User[k].email = email})

\* Policy.findOne({ policy_number })
findPolicy(number) ==
  First({k \in 1..Len(Policy) : Policy[k].policy_number = number})

\* userSchema: firstname and dob are required.
userSchemaValid(doc) == doc.firstname # "" /\ doc.dob # NoDate

\* A unique index rejects the insert of a key that is already stored.
DuplicateKey(found) == uniqueIndexes /\ found # NoId

createOverwriting(coll, doc) == <<doc>>

\* Model.create(doc): the collection gains one document.
create(coll, doc) == Append(coll, doc)

\* The findOne call of run r on a model with a key, appended to the call log.
Called(log, r, model, key) ==
  [log EXCEPT ![r] = Append(@, [model |-> model, key |-> key])]

cacheSetDropped(cache, key, id) == cache

\* cache.set(key, id)
cacheSet(cache, key, id) == (key :> id) @@ cache

(***************************************************************************)
(* Messages posted on parentPort.                                          *)
(***************************************************************************)
ProgressMsg(p, t) == [type |-> "progress", processed |-> p, total |-> t]

ErrorsSliceUncapped(list) == list

ErrorsSlice(list) == SubSeq(list, 1, Min(Len(list), ErrorsListCap))

DoneMsg(p, e, t, list) ==
  [type |-> "done", success |-> TRUE, processed |-> p, errors |-> e,
   total |-> t, errorsList |-> ErrorsSlice(list)]

ErrorMsg(text) == [type |-> "error", error |-> text]

ShouldReportEarly(p) == (p + 1) % ReportInterval = 0

ShouldReport(p) == p % ReportInterval = 0

(***************************************************************************)
(* The services start from the state their constructors leave.             *)
(***************************************************************************)
InitScheduler(instants) ==
  /\ clock \in instants
  /\ ScheduledMessage = << >> /\ Message = << >>
  /\ jobs = << >> /\ timers = << >>
  /\ isRunning = FALSE /\ starts = 0
  /\ loadDue = 0 /\ cronDue = 0
  /\ posts = {} /\ deletes = {}
  /\ loading = << >> /\ cronTodo = << >> /\ execs = {}
  /\ deleteResponse = [id |-> 0, status |-> NoResponse]

InitMonitor ==
  /\ isMonitoring = FALSE /\ monitorInterval = FALSE
  /\ sampling = 0 /\ samples = << >> /\ restarts = 0
  /\ restartCallback = "null"

(***************************************************************************)
(* Init: empty storage, no worker started yet.                             *)
(***************************************************************************)
InitImport(payloads) ==
  /\ Agent = << >> /\ LOB = << >> /\ Carrier = << >>
  /\ UserAccount = << >> /\ User = << >> /\ Policy = << >>
  /\ uniqueIndexes \in BOOLEAN
  /\ csvData \in payloads
  /\ pc = [r \in Runs |-> "idle"]
  /\ connected = [r \in Runs |-> FALSE]
  /\ records = [r \in Runs |-> << >>]
  /\ i = [r \in Runs |-> 0]
  /\ j = [r \in Runs |-> 0]
  /\ processed = [r \in Runs |-> 0]
  /\ errors = [r \in Runs |-> 0]
  /\ errorsList = [r \in Runs |-> << >>]
  /\ agentCache = [r \in Runs |-> << >>]
  /\ lobCache = [r \in Runs |-> << >>]
  /\ carrierCache = [r \in Runs |-> << >>]
  /\ userCache = [r \in Runs |-> << >>]
  /\ accountCache = [r \in Runs |-> << >>]
  /\ agentId = [r \in Runs |-> NoId]
  /\ lobId = [r \in Runs |-> NoId]
  /\ carrierId = [r \in Runs |-> NoId]
  /\ userId = [r \in Runs |-> NoId]
  /\ msgs = [r \in Runs |-> << >>]
  /\ findOneCalls = [r \in Runs |-> << >>]
  /\ response = [r \in Runs |-> NoResponse]
  /\ listening = [r \in Runs |-> FALSE]
  /\ delivered = [r \in Runs |-> 0]
  /\ hostLog = [r \in Runs |-> << >>]
  /\ fileRemoved = [r \in Runs |-> FALSE]

InitWith(payloads) ==
  InitImport(payloads) /\ InitScheduler({0}) /\ InitMonitor

Init ==
  InitWith({f \in [Runs -> OverlapPayloads] :
              \A r \in Runs \ {1, 2} : f[r] = f[1]})

Goto(r, label) == pc' = [pc EXCEPT ![r] = label]

Post(r, m) == msgs' = [msgs EXCEPT ![r] = Append(@, m)]

record(r) == records[r][i[r] + j[r] + 1]

(***************************************************************************)
(* POST /api/upload.  A request without a file is answered 400; a file     *)
(* that cannot be read is answered 500 and unlinked.  Otherwise, in one    *)
(* synchronous block, the worker is created, the request is answered 202   *)
(* and the listeners are registered.                                       *)
(***************************************************************************)
Requests == {"no file", "unreadable file", "file"}

UploadListensLate(r, req) ==
  /\ pc[r] = "idle"
  /\ Goto(r, "start")
  /\ response' = [response EXCEPT ![r] = Accepted]
  /\ UNCHANGED <<listening, delivered, hostLog, fileRemoved>>
  /\ UNCHANGED services
  /\ UNCHANGED <<storage, uniqueIndexes, csvData, connected, records, position,
                 counters, caches, ids, msgs, calls>>

Upload(r, req) ==
  /\ pc[r] = "idle"
  /\ IF req = "file"
       THEN /\ Goto(r, "start")
            /\ response' = [response EXCEPT ![r] = Accepted]
            /\ listening' = [listening EXCEPT ![r] = TRUE]
            /\ UNCHANGED fileRemoved
       ELSE /\ Goto(r, "rejected")
            /\ response' =
                 [response EXCEPT
                    ![r] = IF req = "no file" THEN BadRequest ELSE ServerError]
            /\ fileRemoved' = [fileRemoved EXCEPT ![r] = req # "no file"]
            /\ UNCHANGED listening
  /\ UNCHANGED <<delivered, hostLog>>
  /\ UNCHANGED services
  /\ UNCHANGED <<storage, uniqueIndexes, csvData, connected, records, position,
                 counters, caches, ids, msgs, calls>>

\* The host's event loop dispatches the next message of the worker; the
\* listener logs it and unlinks the uploaded file on done and on error.  A
\* message dispatched while no listener is registered is dropped.
HandleMessage(r) ==
  LET message == msgs[r][delivered[r] + 1]
  IN /\ delivered[r] < Len(msgs[r])
     /\ delivered' = [delivered EXCEPT ![r] = @ + 1]
     /\ IF listening[r]
          THEN /\ hostLog' = [hostLog EXCEPT ![r] = Append(@, message)]
               /\ fileRemoved' =
                    [fileRemoved EXCEPT
                       ![r] = @ \/ message.type \in {"done", "error"}]
          ELSE UNCHANGED <<hostLog, fileRemoved>>
     /\ UNCHANGED <<response, listening>>
     /\ UNCHANGED services
     /\ UNCHANGED <<storage, uniqueIndexes, csvData, pc, connected, records,
                    position, counters, caches, ids, msgs, calls>>

(***************************************************************************)
(* Worker start: processCSV runs only when workerData.csvData is truthy.   *)
(***************************************************************************)
StartWorker(r) ==
  /\ pc[r] = "start"
  /\ Goto(r, IF csvData[r].kind = "empty" THEN "exited" ELSE "connect")
  /\ UNCHANGED services
  /\ UNCHANGED <<storage, uniqueIndexes, csvData, connected, records, position,
                 counters, caches, ids, msgs, calls, host>>

\* await mongoose.connect(...): resolves or rejects.
Connect(r) ==
  /\ pc[r] = "connect"
  /\ \E ok \in BOOLEAN :
       IF ok
         THEN /\ connected' = [connected EXCEPT ![r] = TRUE]
              /\ Goto(r, "parse")
              /\ UNCHANGED msgs
         ELSE /\ Post(r, ErrorMsg("connect failed"))
              /\ Goto(r, "exited")
              /\ UNCHANGED connected
  /\ UNCHANGED services
  /\ UNCHANGED <<storage, uniqueIndexes, csvData, records, position, counters,
                 caches, ids, calls, host>>

\* parse(csvData, {columns: true, skip_empty_lines: true, trim: true})
parse(text) == SelectSeq(text.lines, LAMBDA line : ~IsBlank(line))

parseNeverThrows(text) == FALSE

\* csv-parse throws on a text it cannot tokenize.
parseThrows(text) == text.kind = "malformed"

Parse(r) ==
  /\ pc[r] = "parse"
  /\ IF parseThrows(csvData[r])
       THEN /\ Post(r, ErrorMsg("parse failed"))
            /\ Goto(r, "exited")
            /\ UNCHANGED records
       ELSE /\ records' = [records EXCEPT ![r] = parse(csvData[r])]
            /\ Goto(r, IF Len(parse(csvData[r])) = 0 THEN "close" ELSE "agent")
            /\ UNCHANGED msgs
  /\ UNCHANGED services
  /\ UNCHANGED <<storage, uniqueIndexes, csvData, connected, position, counters,
                 caches, ids, calls, host>>

(***************************************************************************)
(* End of a row.  The for-loops advance to the next record of the batch,   *)
(* then to the next batch; the row's identities go out of scope.           *)
(***************************************************************************)
NextRecord(r) ==
  LET batchLen == Min(batchSize, Len(records[r]) - i[r])
  IN /\ IF j[r] + 1 < batchLen
          THEN /\ j' = [j EXCEPT ![r] = @ + 1]
               /\ i' = i
               /\ Goto(r, "agent")
          ELSE /\ j' = [j EXCEPT ![r] = 0]
               /\ i' = [i EXCEPT ![r] = @ + batchSize]
               /\ Goto(r, IF i[r] + batchSize < Len(records[r])
                            THEN "agent" ELSE "close")
     /\ agentId' = [agentId EXCEPT ![r] = NoId]
     /\ lobId' = [lobId EXCEPT ![r] = NoId]
     /\ carrierId' = [carrierId EXCEPT ![r] = NoId]
     /\ userId' = [userId EXCEPT ![r] = NoId]

\* processed++ and the progress update that follows it inside the try block.
RowDone(r) ==
  LET p == processed[r] + 1
  IN /\ processed' = [processed EXCEPT ![r] = p]
     /\ msgs' = [msgs EXCEPT ![r] =
                   IF ShouldReport(p)
                     THEN Append(@, ProgressMsg(p, Len(records[r])))
                     ELSE @]
     /\ UNCHANGED <<errors, errorsList>>
     /\ NextRecord(r)

ErrorEntryInBatch(r, message) ==
  [row |-> j[r] + 1,
   error |-> message,
   record |-> IF Truthy(record(r).policy_number)
                THEN record(r).policy_number ELSE "N/A"]

ErrorEntry(r, message) ==
  [row |-> i[r] + j[r] + 1,
   error |-> message,
   record |-> IF Truthy(record(r).policy_number)
                THEN record(r).policy_number ELSE "N/A"]

RowFailedAborts(r, message) ==
  /\ Post(r, ErrorMsg(message))
  /\ Goto(r, "exited")
  /\ UNCHANGED <<position, counters, ids>>

RowFailedCountsProcessed(r, message) ==
  /\ errors' = [errors EXCEPT ![r] = @ + 1]
  /\ errorsList' = [errorsList EXCEPT ![r] = Append(@, ErrorEntry(r, message))]
  /\ processed' = [processed EXCEPT ![r] = @ + 1]
  /\ UNCHANGED msgs
  /\ NextRecord(r)

\* The catch block of the row.
RowFailed(r, message) ==
  /\ errors' = [errors EXCEPT ![r] = @ + 1]
  /\ errorsList' = [errorsList EXCEPT ![r] = Append(@, ErrorEntry(r, message))]
  /\ UNCHANGED <<processed, msgs>>
  /\ NextRecord(r)

\* A step that stays inside the row.
InRow == UNCHANGED <<position, counters, msgs>>

(***************************************************************************)
(* getOrCreateAgent: empty label, cache hit, findOne, then create.         *)
(***************************************************************************)
AgentFindOne(r) ==
  LET label == record(r).agent
      found == findAgent(label)
  IN /\ pc[r] = "agent"
     /\ IF ~Truthy(label)
          THEN /\ Goto(r, "lob")
               /\ UNCHANGED <<agentCache, agentId, findOneCalls>>
          ELSE IF label \in DOMAIN agentCache[r]
            THEN /\ Goto(r, "lob")
                 /\ agentId' = [agentId EXCEPT ![r] = agentCache[r][label]]
                 /\ UNCHANGED <<agentCache, findOneCalls>>
            ELSE /\ findOneCalls' = Called(findOneCalls, r, "Agent", label)
                 /\ IF found # NoId
                      THEN /\ agentCache' =
                                [agentCache EXCEPT
                                   ![r] = cacheSet(@, label, found)]
                           /\ Goto(r, "lob")
                           /\ agentId' = [agentId EXCEPT ![r] = found]
                      ELSE /\ Goto(r, "agentCreate")
                           /\ UNCHANGED <<agentCache, agentId>>
     /\ InRow
     /\ UNCHANGED services
     /\ UNCHANGED <<storage, uniqueIndexes, csvData, connected, records>>
     /\ UNCHANGED <<lobCache, carrierCache, userCache, accountCache>>
     /\ UNCHANGED <<lobId, carrierId, userId>>
     /\ UNCHANGED host

AgentCreate(r) ==
  LET label == record(r).agent
      id == Len(Agent) + 1
  IN /\ pc[r] = "agentCreate"
     /\ IF DuplicateKey(findAgent(label))
          THEN /\ RowFailed(r, "E11000 duplicate key")
               /\ UNCHANGED <<Agent, agentCache>>
          ELSE /\ Agent' = create(Agent, [name |-> label])
               /\ agentCache' = [agentCache EXCEPT ![r] = cacheSet(@, label, id)]
               /\ agentId' = [agentId EXCEPT ![r] = id]
               /\ UNCHANGED <<lobId, carrierId, userId>>
               /\ Goto(r, "lob")
               /\ InRow
     /\ UNCHANGED <<LOB, Carrier, UserAccount, User, Policy>>
     /\ UNCHANGED services
     /\ UNCHANGED <<uniqueIndexes, csvData, connected, records>>
     /\ UNCHANGED <<lobCache, carrierCache, userCache, accountCache>>
     /\ UNCHANGED <<findOneCalls, host>>

getOrCreateAgent(r) == AgentFindOne(r) \/ AgentCreate(r)

(***************************************************************************)
(* getOrCreateLOB: empty label, cache hit, findOne, then create.           *)
(***************************************************************************)
LOBFindOne(r) ==
  LET label == record(r).category_name
      found == findLOB(label)
  IN /\ pc[r] = "lob"
     /\ IF ~Truthy(label)
          THEN /\ Goto(r, "carrier")
               /\ UNCHANGED <<lobCache, lobId, findOneCalls>>
          ELSE IF label \in DOMAIN lobCache[r]
            THEN /\ Goto(r, "carrier")
                 /\ lobId' = [lobId EXCEPT ![r] = lobCache[r][label]]
                 /\ UNCHANGED <<lobCache, findOneCalls>>
            ELSE /\ findOneCalls' = Called(findOneCalls, r, "LOB", label)
                 /\ IF found # NoId
                      THEN /\ lobCache' =
                                [lobCache EXCEPT
                                   ![r] = cacheSet(@, label, found)]
                           /\ Goto(r, "carrier")
                           /\ lobId' = [lobId EXCEPT ![r] = found]
                      ELSE /\ Goto(r, "lobCreate")
                           /\ UNCHANGED <<lobCache, lobId>>
     /\ InRow
     /\ UNCHANGED services
     /\ UNCHANGED <<storage, uniqueIndexes, csvData, connected, records>>
     /\ UNCHANGED <<agentCache, carrierCache, userCache, accountCache>>
     /\ UNCHANGED <<agentId, carrierId, userId>>
     /\ UNCHANGED host

LOBCreate(r) ==
  LET label == record(r).category_name
      id == Len(LOB) + 1
  IN /\ pc[r] = "lobCreate"
     /\ IF DuplicateKey(findLOB(label))
          THEN /\ RowFailed(r, "E11000 duplicate key")
               /\ UNCHANGED <<LOB, lobCache>>
          ELSE /\ LOB' = create(LOB, [category_name |-> label])
               /\ lobCache' = [lobCache EXCEPT ![r] = cacheSet(@, label, id)]
               /\ lobId' = [lobId EXCEPT ![r] = id]
               /\ UNCHANGED <<agentId, carrierId, userId>>
               /\ Goto(r, "carrier")
               /\ InRow
     /\ UNCHANGED <<Agent, Carrier, UserAccount, User, Policy>>
     /\ UNCHANGED services
     /\ UNCHANGED <<uniqueIndexes, csvData, connected, records>>
     /\ UNCHANGED <<agentCache, carrierCache, userCache, accountCache>>
     /\ UNCHANGED <<findOneCalls, host>>

getOrCreateLOB(r) == LOBFindOne(r) \/ LOBCreate(r)

(***************************************************************************)
(* getOrCreateCarrier: empty label, cache hit, findOne, then create.       *)
(***************************************************************************)
CarrierFindOne(r) ==
  LET label == record(r).company_name
      found == findCarrier(label)
  IN /\ pc[r] = "carrier"
     /\ IF ~Truthy(label)
          THEN /\ Goto(r, "user")
               /\ UNCHANGED <<carrierCache, carrierId, findOneCalls>>
          ELSE IF label \in DOMAIN carrierCache[r]
            THEN /\ Goto(r, "user")
                 /\ carrierId' = [carrierId EXCEPT ![r] = carrierCache[r][label]]
                 /\ UNCHANGED <<carrierCache, findOneCalls>>
            ELSE /\ findOneCalls' = Called(findOneCalls, r, "Carrier", label)
                 /\ IF found # NoId
                      THEN /\ carrierCache' =
                                [carrierCache EXCEPT
                                   ![r] = cacheSet(@, label, found)]
                           /\ Goto(r, "user")
                           /\ carrierId' = [carrierId EXCEPT ![r] = found]
                      ELSE /\ Goto(r, "carrierCreate")
                           /\ UNCHANGED <<carrierCache, carrierId>>
     /\ InRow
     /\ UNCHANGED services
     /\ UNCHANGED <<storage, uniqueIndexes, csvData, connected, records>>
     /\ UNCHANGED <<agentCache, lobCache, userCache, accountCache>>
     /\ UNCHANGED <<agentId, lobId, userId>>
     /\ UNCHANGED host

CarrierCreate(r) ==
  LET label == record(r).company_name
      id == Len(Carrier) + 1
  IN /\ pc[r] = "carrierCreate"
     /\ IF DuplicateKey(findCarrier(label))
          THEN /\ RowFailed(r, "E11000 duplicate key")
               /\ UNCHANGED <<Carrier, carrierCache>>
          ELSE /\ Carrier' = create(Carrier, [company_name |-> label])
               /\ carrierCache' = [carrierCache EXCEPT ![r] = cacheSet(@, label, id)]
               /\ carrierId' = [carrierId EXCEPT ![r] = id]
               /\ UNCHANGED <<agentId, lobId, userId>>
               /\ Goto(r, "user")
               /\ InRow
     /\ UNCHANGED <<Agent, LOB, UserAccount, User, Policy>>
     /\ UNCHANGED services
     /\ UNCHANGED <<uniqueIndexes, csvData, connected, records>>
     /\ UNCHANGED <<agentCache, lobCache, userCache, accountCache>>
     /\ UNCHANGED <<findOneCalls, host>>

getOrCreateCarrier(r) == CarrierFindOne(r) \/ CarrierCreate(r)

(***************************************************************************)
(* getOrCreateUserAccount: empty label, cache hit, findOne, then create.   *)
(***************************************************************************)
UserAccountFindOneRejectsEmpty(r) ==
  /\ pc[r] = "account"
  /\ record(r).account_name = ""
  /\ RowFailed(r, "UserAccount validation failed")
  /\ UNCHANGED services
  /\ UNCHANGED <<storage, uniqueIndexes, csvData, connected, records, caches,
                 calls, host>>

UserAccountFindOne(r) ==
  LET label == record(r).account_name
      found == findUserAccount(label)
  IN /\ pc[r] = "account"
     /\ IF ~Truthy(label)
          THEN /\ Goto(r, "policy")
               /\ UNCHANGED <<accountCache, findOneCalls>>
          ELSE IF label \in DOMAIN accountCache[r]
            THEN /\ Goto(r, "policy")
                 /\ UNCHANGED <<accountCache, findOneCalls>>
            ELSE /\ findOneCalls' = Called(findOneCalls, r, "UserAccount", label)
                 /\ IF found # NoId
                      THEN /\ accountCache' =
                                [accountCache EXCEPT
                                   ![r] = cacheSet(@, label, found)]
                           /\ Goto(r, "policy")
                      ELSE /\ Goto(r, "accountCreate")
                           /\ UNCHANGED <<accountCache>>
     /\ InRow
     /\ UNCHANGED services
     /\ UNCHANGED <<storage, uniqueIndexes, csvData, connected, records>>
     /\ UNCHANGED <<agentCache, lobCache, carrierCache, userCache>>
     /\ UNCHANGED <<ids>>
     /\ UNCHANGED host

UserAccountCreate(r) ==
  LET label == record(r).account_name
      id == Len(UserAccount) + 1
  IN /\ pc[r] = "accountCreate"
     /\ UserAccount' = create(UserAccount, [account_name |-> label])
     /\ accountCache' = [accountCache EXCEPT ![r] = cacheSet(@, label, id)]
     /\ UNCHANGED ids
     /\ Goto(r, "policy")
     /\ InRow
     /\ UNCHANGED <<Agent, LOB, Carrier, User, Policy>>
     /\ UNCHANGED services
     /\ UNCHANGED <<uniqueIndexes, csvData, connected, records>>
     /\ UNCHANGED <<agentCache, lobCache, carrierCache, userCache>>
     /\ UNCHANGED <<findOneCalls, host>>

getOrCreateUserAccount(r) == UserAccountFindOne(r) \/ UserAccountCreate(r)

(***************************************************************************)
(* getOrCreateUser: cache keyed by the raw firstname, email and dob; the   *)
(* storage lookup only when firstname and email are both present.          *)
(***************************************************************************)
userKey(userData) ==
  userData.firstname \o "_" \o userData.email \o "_" \o userData.dob

\* The filter of User.findOne, as recorded in the call log.
userFilter(userData) == userData.firstname \o "_" \o userData.email

UserLookupMiss(userData) == NoId

UserLookup(userData) ==
  IF Truthy(userData.firstname) /\ Truthy(userData.email)
    THEN findUser(userData.firstname, userData.email)
    ELSE NoId

UserDoc(userData) ==
  [firstname |-> userData.firstname, email |-> userData.email,
   dob |-> parseDate(userData.dob)]

UserFindOne(r) ==
  LET key == userKey(record(r))
      found == UserLookup(record(r))
      asked == Truthy(record(r).firstname) /\ Truthy(record(r).email)
  IN /\ pc[r] = "user"
     /\ IF key \in DOMAIN userCache[r]
          THEN /\ userId' = [userId EXCEPT ![r] = userCache[r][key]]
               /\ Goto(r, "account")
               /\ UNCHANGED <<userCache, findOneCalls>>
          ELSE /\ findOneCalls' =
                    IF asked
                      THEN Called(findOneCalls, r, "User",
                                  userFilter(record(r)))
                      ELSE findOneCalls
               /\ IF found # NoId
                    THEN /\ userCache' =
                              [userCache EXCEPT ![r] = cacheSet(@, key, found)]
                         /\ userId' = [userId EXCEPT ![r] = found]
                         /\ Goto(r, "account")
                    ELSE /\ Goto(r, "userCreate")
                         /\ UNCHANGED <<userCache, userId>>
     /\ InRow
     /\ UNCHANGED services
     /\ UNCHANGED <<storage, uniqueIndexes, csvData, connected, records,
                    agentCache, lobCache, carrierCache, accountCache,
                    agentId, lobId, carrierId, host>>

UserCreate(r) ==
  LET key == userKey(record(r))
      doc == UserDoc(record(r))
  IN /\ pc[r] = "userCreate"
     /\ IF ~userSchemaValid(doc)
          THEN /\ RowFailed(r, "User validation failed")
               /\ UNCHANGED <<User, userCache>>
          ELSE /\ User' = create(User, doc)
               /\ userCache' =
                    [userCache EXCEPT ![r] = cacheSet(@, key, Len(User) + 1)]
               /\ userId' = [userId EXCEPT ![r] = Len(User) + 1]
               /\ Goto(r, "account")
               /\ UNCHANGED <<agentId, lobId, carrierId>>
               /\ InRow
     /\ UNCHANGED services
     /\ UNCHANGED <<Agent, LOB, Carrier, UserAccount, Policy, uniqueIndexes,
                    csvData, connected, records, agentCache, lobCache,
                    carrierCache, accountCache, findOneCalls, host>>

getOrCreateUser(r) == UserFindOne(r) \/ UserCreate(r)

(***************************************************************************)
(* Policy: dates parsed, guard, findOne by policy_number, then create.     *)
(***************************************************************************)
PolicyGuardNoDates(rec, lob, carrier, user, startDate, endDate) ==
  /\ Truthy(rec.policy_number)
  /\ lob # NoId
  /\ carrier # NoId
  /\ user # NoId

PolicyGuardNoNumber(rec, lob, carrier, user, startDate, endDate) ==
  /\ lob # NoId
  /\ carrier # NoId
  /\ user # NoId
  /\ startDate # NoDate
  /\ endDate # NoDate

PolicyGuard(rec, lob, carrier, user, startDate, endDate) ==
  /\ Truthy(rec.policy_number)
  /\ lob # NoId
  /\ carrier # NoId
  /\ user # NoId
  /\ startDate # NoDate
  /\ endDate # NoDate

RowGuard(r) ==
  PolicyGuard(record(r), lobId[r], carrierId[r], userId[r],
              parseDate(record(r).policy_start_date),
              parseDate(record(r).policy_end_date))

PolicyDoc(r) ==
  [policy_number |-> record(r).policy_number,
   policy_start_date |-> parseDate(record(r).policy_start_date),
   policy_end_date |-> parseDate(record(r).policy_end_date),
   policy_category_id |-> lobId[r],
   company_collection_id |-> carrierId[r],
   user_id |-> userId[r]]

existingPolicy(r) == findPolicy(record(r).policy_number)

PolicyFindOne(r) ==
  /\ pc[r] = "policy"
  /\ IF RowGuard(r) /\ existingPolicy(r) = NoId
       THEN /\ Goto(r, "policyCreate")
            /\ InRow
            /\ UNCHANGED ids
       ELSE RowDone(r)
  /\ findOneCalls' =
       IF RowGuard(r)
         THEN Called(findOneCalls, r, "Policy", record(r).policy_number)
         ELSE findOneCalls
  /\ UNCHANGED services
  /\ UNCHANGED <<storage, uniqueIndexes, csvData, connected, records, caches,
                 host>>

PolicyCreate(r) ==
  /\ pc[r] = "policyCreate"
  /\ IF DuplicateKey(existingPolicy(r))
       THEN /\ RowFailed(r, "E11000 duplicate key")
            /\ UNCHANGED Policy
       ELSE /\ Policy' = create(Policy, PolicyDoc(r))
            /\ RowDone(r)
  /\ UNCHANGED findOneCalls
  /\ UNCHANGED services
  /\ UNCHANGED <<Agent, LOB, Carrier, UserAccount, User, uniqueIndexes,
                 csvData, connected, records, caches, host>>

createPolicy(r) == PolicyFindOne(r) \/ PolicyCreate(r)

(***************************************************************************)
(* await mongoose.connection.close(), then the done message; a rejected    *)
(* close reaches the outer catch, which posts the error message.           *)
(***************************************************************************)
Close(r) ==
  /\ pc[r] = "close"
  /\ \E ok \in BOOLEAN :
       IF ok
         THEN /\ connected' = [connected EXCEPT ![r] = FALSE]
              /\ Post(r, DoneMsg(processed[r], errors[r], Len(records[r]),
                                 errorsList[r]))
         ELSE /\ Post(r, ErrorMsg("close failed"))
              /\ UNCHANGED connected
  /\ Goto(r, "exited")
  /\ UNCHANGED services
  /\ UNCHANGED <<storage, uniqueIndexes, csvData, records, position, counters,
                 caches, ids, calls, host>>

processCSV(r) ==
  \/ Connect(r)
  \/ Parse(r)
  \/ getOrCreateAgent(r)
  \/ getOrCreateLOB(r)
  \/ getOrCreateCarrier(r)
  \/ getOrCreateUser(r)
  \/ getOrCreateUserAccount(r)
  \/ createPolicy(r)
  \/ Close(r)

(***************************************************************************)
(* Scheduled messages.  A storage call and the code after its await are    *)
(* two steps of the event loop: a read returns what storage holds when it  *)
(* is issued, a write takes effect when it is issued, and the continuation *)
(* runs in a later step.  executed_at and updatedAt are not modelled.      *)
(***************************************************************************)
Pending(m) == ScheduledMessage[m].status = "pending"

Ids == 1..Len(ScheduledMessage)

Remove(f, x) == [y \in DOMAIN f \ {x} |-> f[y]]

Range(f) == {f[x] : x \in DOMAIN f}

RECURSIVE Ascending(_)
Ascending(S) ==
  IF S = {} THEN << >>
  ELSE LET m == CHOOSE x \in S : \A y \in S : x <= y
       IN <<m>> \o Ascending(S \ {m})

setStatus(m, status, error) ==
  ScheduledMessage' =
    [ScheduledMessage EXCEPT ![m].status = status, ![m].error_message = error]

\* The part of the state scheduleMessage and executeMessage write.
Registry == [jobs |-> jobs, timers |-> timers, execs |-> execs,
             Message |-> Message]

Becomes(reg) ==
  /\ jobs' = reg.jobs
  /\ timers' = reg.timers
  /\ execs' = reg.execs
  /\ Message' = reg.Message

\* executeMessage up to its first await: Message.create is issued and
\* either stores the Message or is rejected.
executeMessage(reg, m, by, ok) ==
  [reg EXCEPT
     !.Message =
        IF ok
          THEN Append(@, [content |-> ScheduledMessage[m].message,
                          scheduled_message_id |-> m,
                          inserted_at |-> clock])
          ELSE @,
     !.execs = @ \cup {[msg |-> m, by |-> by, inserted |-> ok,
                         pc |-> "update"]}]

timeoutId(reg) ==
  CHOOSE h \in 1..(Cardinality(DOMAIN reg.timers \cup Range(reg.jobs)) + 1) :
    h \notin DOMAIN reg.timers \cup Range(reg.jobs)

scheduleMessage(reg, m, ok) ==
  LET scheduledDate == ScheduledMessage[m].scheduled_datetime
  IN IF scheduledDate < clock
       THEN executeMessage(reg, m, "none", ok)
       ELSE [reg EXCEPT
               !.timers = (timeoutId(reg) :>
                             [msg |-> m, due |-> scheduledDate]) @@ @,
               !.jobs = (m :> timeoutId(reg)) @@ @]

cancelMessage(reg, m) ==
  IF m \in DOMAIN reg.jobs
    THEN [reg EXCEPT !.timers = Remove(@, reg.jobs[m]),
                     !.jobs = Remove(@, m)]
    ELSE reg

(***************************************************************************)
(* POST /api/scheduled-messages: validation, the date, the document, and   *)
(* after the await the scheduler's scheduleMessage.                        *)
(***************************************************************************)
trim(s) == IF s = " hi " THEN "hi" ELSE s

ValidRequest(req) ==
  /\ req.message # "" /\ req.day # "" /\ req.time # << >>
  /\ toLowerCase(req.day) \in validDays
  /\ timeRegex(req.time)

PostCreate(req) ==
  /\ ValidRequest(req)
  /\ ScheduledMessage' =
       Append(ScheduledMessage,
              [message |-> trim(req.message),
               scheduled_day |-> toLowerCase(req.day),
               scheduled_time |-> req.time,
               scheduled_datetime |->
                 getNextScheduledDate(req.day, req.time, clock),
               status |-> "pending",
               error_message |-> ""])
  /\ posts' = posts \cup {Len(ScheduledMessage) + 1}
  /\ UNCHANGED <<clock, Message, jobs, timers, isRunning, starts, loadDue,
                 cronDue, deletes, loading, cronTodo, execs>>
  /\ UNCHANGED <<importer, monitor, deleteResponse>>

PostSchedule(m, ok) ==
  /\ m \in posts
  /\ posts' = posts \ {m}
  /\ Becomes(scheduleMessage(Registry, m, ok))
  /\ UNCHANGED <<clock, ScheduledMessage, isRunning, starts, loadDue, cronDue,
                 deletes, loading, cronTodo>>
  /\ UNCHANGED <<importer, monitor, deleteResponse>>

(***************************************************************************)
(* DELETE /api/scheduled-messages/:id: findById, then for a document read  *)
(* as pending cancelMessage and the update to cancelled.                   *)
(***************************************************************************)
DeleteFind(m) ==
  /\ m \in Ids
  /\ Pending(m)
  /\ m \notin deletes
  /\ deletes' = deletes \cup {m}
  /\ UNCHANGED <<clock, ScheduledMessage, Message, jobs, timers, isRunning,
                 starts, loadDue, cronDue, posts, loading, cronTodo, execs>>
  /\ UNCHANGED <<importer, monitor, deleteResponse>>

DeleteCancel(m) ==
  /\ m \in deletes
  /\ deletes' = deletes \ {m}
  /\ Becomes(cancelMessage(Registry, m))
  /\ setStatus(m, "cancelled", ScheduledMessage[m].error_message)
  /\ deleteResponse' = [id |-> m, status |-> OK]
  /\ UNCHANGED <<clock, isRunning, starts, loadDue, cronDue, posts, loading,
                 cronTodo>>
  /\ UNCHANGED <<importer, monitor>>

\* findById returned no document, or one whose status is not pending: the
\* handler answers 404 or 400 and returns.
DeleteRejectCancels(id) ==
  /\ ~(id \in Ids /\ Pending(id))
  /\ IF id \notin Ids
       THEN /\ deleteResponse' = [id |-> id, status |-> NotFound]
            /\ UNCHANGED <<ScheduledMessage, jobs, timers, execs, Message>>
       ELSE /\ deleteResponse' = [id |-> id, status |-> OK]
            /\ Becomes(cancelMessage(Registry, id))
            /\ setStatus(id, "cancelled", ScheduledMessage[id].error_message)
  /\ UNCHANGED <<clock, isRunning, starts, loadDue, cronDue, posts, deletes,
                 loading, cronTodo>>
  /\ UNCHANGED <<importer, monitor>>

DeleteReject(id) ==
  /\ ~(id \in Ids /\ Pending(id))
  /\ deleteResponse' =
       [id |-> id,
        status |-> IF id \notin Ids THEN NotFound ELSE BadRequest]
  /\ UNCHANGED <<clock, ScheduledMessage, Message, jobs, timers, isRunning,
                 starts, loadDue, cronDue, posts, deletes, loading, cronTodo,
                 execs>>
  /\ UNCHANGED <<importer, monitor>>

(***************************************************************************)
(* MessageScheduler.start and stop.  start leaves an interval and a cron   *)
(* task behind; stop clears the timeouts of jobs and nothing else.         *)
(***************************************************************************)
start ==
  /\ ~isRunning
  /\ starts < MaxStarts
  /\ isRunning' = TRUE
  /\ starts' = starts + 1
  /\ loadDue' = loadDue + 1
  /\ UNCHANGED <<clock, ScheduledMessage, Message, jobs, timers, cronDue,
                 posts, deletes, loading, cronTodo, execs>>
  /\ UNCHANGED <<importer, monitor, deleteResponse>>

stop ==
  /\ timers' = [h \in DOMAIN timers \ Range(jobs) |-> timers[h]]
  /\ jobs' = << >>
  /\ isRunning' = FALSE
  /\ UNCHANGED <<clock, ScheduledMessage, Message, starts, loadDue, cronDue,
                 posts, deletes, loading, cronTodo, execs>>
  /\ UNCHANGED <<importer, monitor, deleteResponse>>

(***************************************************************************)
(* Time passes.  At the start of a minute every interval and every cron    *)
(* task becomes due; the phase of an interval is not modelled.  Storage    *)
(* answers and due callbacks run within the tick they are due in.          *)
(***************************************************************************)
Settled ==
  /\ posts = {} /\ deletes = {}
  /\ loading = << >> /\ cronTodo = << >> /\ execs = {}
  /\ loadDue = 0 /\ cronDue = 0
  /\ \A h \in DOMAIN timers : timers[h].due > clock

Tick ==
  /\ clock < MaxTime
  /\ Settled
  /\ clock' = clock + 1
  /\ IF (clock + 1) % TicksPerMinute = 0
       THEN loadDue' = starts /\ cronDue' = starts
       ELSE UNCHANGED <<loadDue, cronDue>>
  /\ UNCHANGED <<ScheduledMessage, Message, jobs, timers, isRunning, starts,
                 posts, deletes, loading, cronTodo, execs>>
  /\ UNCHANGED <<importer, monitor, deleteResponse>>

(***************************************************************************)
(* loadPendingMessages: the find, then scheduleMessage for every message   *)
(* found that has no job.                                                  *)
(***************************************************************************)
LoadFind ==
  /\ loadDue > 0
  /\ loading = << >>
  /\ loadDue' = loadDue - 1
  /\ loading' =
       Ascending({m \in Ids :
                    /\ Pending(m)
                    /\ ScheduledMessage[m].scheduled_datetime >= clock})
  /\ UNCHANGED <<clock, ScheduledMessage, Message, jobs, timers, isRunning,
                 starts, cronDue, posts, deletes, cronTodo, execs>>
  /\ UNCHANGED <<importer, monitor, deleteResponse>>

RECURSIVE ScheduleAll(_, _, _)
ScheduleAll(reg, found, ok) ==
  IF found = << >> THEN reg
  ELSE ScheduleAll(IF found[1] \in DOMAIN reg.jobs
                     THEN reg
                     ELSE scheduleMessage(reg, found[1], ok),
                   Tail(found), ok)

LoadSchedule(ok) ==
  /\ loading # << >>
  /\ loading' = << >>
  /\ Becomes(ScheduleAll(Registry, loading, ok))
  /\ UNCHANGED <<clock, ScheduledMessage, isRunning, starts, loadDue, cronDue,
                 posts, deletes, cronTodo>>
  /\ UNCHANGED <<importer, monitor, deleteResponse>>

loadPendingMessages(ok) == LoadFind \/ LoadSchedule(ok)

(***************************************************************************)
(* A timeout set by scheduleMessage fires: executeMessage, and after it    *)
(* jobs.delete(jobId).                                                     *)
(***************************************************************************)
TimerFireEarly(h, ok) ==
  /\ h \in DOMAIN timers
  /\ timers' = Remove(timers, h)
  /\ LET reg == executeMessage(Registry, timers[h].msg, "timer", ok)
     IN execs' = reg.execs /\ Message' = reg.Message
  /\ UNCHANGED <<clock, ScheduledMessage, jobs, isRunning, starts, loadDue,
                 cronDue, posts, deletes, loading, cronTodo>>
  /\ UNCHANGED <<importer, monitor, deleteResponse>>

TimerFire(h, ok) ==
  /\ h \in DOMAIN timers
  /\ clock >= timers[h].due
  /\ timers' = Remove(timers, h)
  /\ LET reg == executeMessage(Registry, timers[h].msg, "timer", ok)
     IN execs' = reg.execs /\ Message' = reg.Message
  /\ UNCHANGED <<clock, ScheduledMessage, jobs, isRunning, starts, loadDue,
                 cronDue, posts, deletes, loading, cronTodo>>
  /\ UNCHANGED <<importer, monitor, deleteResponse>>

(***************************************************************************)
(* executeMessage after Message.create: the update to completed, or in the *)
(* catch block the update to failed with the error's message.  A call that *)
(* nobody awaits ends here.                                                *)
(***************************************************************************)
ExecUpdate(e) ==
  /\ e \in execs
  /\ e.pc = "update"
  /\ IF e.inserted
       THEN setStatus(e.msg, "completed", ScheduledMessage[e.msg].error_message)
       ELSE setStatus(e.msg, "failed", "insert failed")
  /\ execs' = IF e.by = "none"
                THEN execs \ {e}
                ELSE (execs \ {e}) \cup {[e EXCEPT !.pc = "settled"]}
  /\ UNCHANGED <<clock, Message, jobs, timers, isRunning, starts, loadDue,
                 cronDue, posts, deletes, loading, cronTodo>>
  /\ UNCHANGED <<importer, monitor, deleteResponse>>

\* The timeout's callback after await this.executeMessage(message).
ExecDone(e) ==
  /\ e \in execs
  /\ e.pc = "settled"
  /\ e.by = "timer"
  /\ jobs' = Remove(jobs, e.msg)
  /\ execs' = execs \ {e}
  /\ UNCHANGED <<clock, ScheduledMessage, Message, timers, isRunning, starts,
                 loadDue, cronDue, posts, deletes, loading, cronTodo>>
  /\ UNCHANGED <<importer, monitor, deleteResponse>>

(***************************************************************************)
(* The cron task: the find of the pending messages of the last minute,     *)
(* then one after the other executeMessage for those without a job.        *)
(***************************************************************************)
CronAwaits == \E e \in execs : e.by = "cron"

CronFind ==
  /\ cronDue > 0
  /\ cronTodo = << >> /\ ~CronAwaits
  /\ cronDue' = cronDue - 1
  /\ cronTodo' =
       Ascending({m \in Ids :
                    /\ Pending(m)
                    /\ ScheduledMessage[m].scheduled_datetime
                         >= clock - TicksPerMinute
                    /\ ScheduledMessage[m].scheduled_datetime <= clock})
  /\ UNCHANGED <<clock, ScheduledMessage, Message, jobs, timers, isRunning,
                 starts, loadDue, posts, deletes, loading, execs>>
  /\ UNCHANGED <<importer, monitor, deleteResponse>>

RECURSIVE SkipScheduled(_)
SkipScheduled(found) ==
  IF found # << >> /\ found[1] \in DOMAIN jobs
    THEN SkipScheduled(Tail(found))
    ELSE found

\* The loop of the cron callback, from the start or from the return of the
\* executeMessage it awaited, up to its next await.
CronLoop(ok) ==
  /\ IF CronAwaits
       THEN \E e \in execs : e.by = "cron" /\ e.pc = "settled"
       ELSE cronTodo # << >>
  /\ LET left == {e \in execs : e.by # "cron"}
         found == SkipScheduled(cronTodo)
     IN IF found = << >>
          THEN /\ cronTodo' = << >>
               /\ execs' = left
               /\ UNCHANGED Message
          ELSE /\ cronTodo' = Tail(found)
               /\ LET reg == executeMessage([Registry EXCEPT !.execs = left],
                                            found[1], "cron", ok)
                  IN execs' = reg.execs /\ Message' = reg.Message
  /\ UNCHANGED <<clock, ScheduledMessage, jobs, timers, isRunning, starts,
                 loadDue, cronDue, posts, deletes, loading>>
  /\ UNCHANGED <<importer, monitor, deleteResponse>>

scheduleCronJob(ok) == CronFind \/ CronLoop(ok)

(***************************************************************************)
(* CPUMonitor.                                                             *)
(***************************************************************************)
startMonitoring(onRestart) ==
  /\ IF isMonitoring
       THEN UNCHANGED <<isMonitoring, monitorInterval, restartCallback,
                        restarts>>
       ELSE /\ restartCallback' = onRestart
            /\ restarts' = 0
            /\ isMonitoring' = TRUE
            /\ monitorInterval' = TRUE
  /\ UNCHANGED <<sampling, samples>>
  /\ UNCHANGED <<importer, scheduler>>

\* stopMonitoring() called by the process's signal handlers.
stopMonitoring ==
  /\ monitorInterval' = FALSE
  /\ isMonitoring' = FALSE
  /\ UNCHANGED <<sampling, samples, restarts, restartCallback>>
  /\ UNCHANGED <<importer, scheduler>>

\* The interval fires: the callback awaits getCPUUsage().
IntervalFires ==
  /\ monitorInterval
  /\ Len(samples) + sampling < MaxSamples
  /\ sampling' = sampling + 1
  /\ UNCHANGED <<isMonitoring, monitorInterval, samples, restarts,
                 restartCallback>>
  /\ UNCHANGED <<importer, scheduler>>

\* getCPUUsage() returned: the comparison, stopMonitoring() and the restart
\* callback.
Sample(cpuUsage) ==
  /\ sampling > 0
  /\ sampling' = sampling - 1
  /\ samples' = Append(samples, [cpuUsage |-> cpuUsage,
                                 monitoring |-> isMonitoring,
                                 restart |-> cpuUsage >= threshold])
  /\ IF cpuUsage >= threshold
       THEN /\ monitorInterval' = FALSE
            /\ isMonitoring' = FALSE
            /\ IF restartCallback # "null"
                 THEN restarts' = restarts + 1
                 ELSE UNCHANGED restarts  \* restartServer() instead
       ELSE UNCHANGED <<isMonitoring, monitorInterval, restarts>>
  /\ UNCHANGED restartCallback
  /\ UNCHANGED <<importer, scheduler>>

(***************************************************************************)
(* Spec: the runs of Concurrent may start at any time, so they overlap;    *)
(* every further run is a retry of the first payload that starts once the  *)
(* earlier runs ended.                                                     *)
(***************************************************************************)
Concurrent == {1, 2}

\* The request of run q was rejected, or its worker has exited.
Ended(q) == pc[q] \in {"exited", "rejected"}

StartAfter(r) ==
  /\ \A q \in Runs : q < r => Ended(q)
  /\ \E req \in Requests : Upload(r, req)

StartAnyTime(r) ==
  /\ r \notin Concurrent => \A q \in Runs : q < r => Ended(q)
  /\ \E req \in Requests : Upload(r, req)

Next == \E r \in Runs : StartAnyTime(r) \/ StartWorker(r) \/ processCSV(r)

Spec == Init /\ [][Next]_vars

(***************************************************************************)
(* SpecSeq: the same payload imported again after the previous run ended.  *)
(***************************************************************************)
InitSeq ==
  InitWith({[r \in Runs |-> p] : p \in SmallPayloads})

NextSeq == \E r \in Runs : StartAfter(r) \/ StartWorker(r) \/ processCSV(r)

SpecSeq == InitSeq /\ [][NextSeq]_vars

(***************************************************************************)
(* SpecLong: one run over a long payload.                                  *)
(***************************************************************************)
InitLong ==
  InitWith({[r \in Runs |-> IF r = 1 THEN p ELSE EmptyText] :
              p \in LongPayloads})

SpecLong == InitLong /\ [][NextSeq]_vars

(***************************************************************************)
(* SpecKeys: one run over two rows of persons whose fields may contain the *)
(* separator of the cache key, or over a payload of SpecLong's kind.       *)
(***************************************************************************)
KeyPool == {Full, OtherDob, NoFirst, AnnLee, Ann}

KeyPayloads ==
  {EmptyText, MalformedText} \cup {Text(<<a, b>>) : a, b \in KeyPool}

InitKeys ==
  InitWith({[r \in Runs |-> IF r = 1 THEN p ELSE EmptyText] :
              p \in KeyPayloads})

SpecKeys == InitKeys /\ [][NextSeq]_vars

(***************************************************************************)
(* SpecHost: one import after the other, each with a payload of its own    *)
(* (a third import retries the first), with the host's event loop          *)
(* dispatching the workers' messages.                                      *)
(***************************************************************************)
HostPayloads ==
  {EmptyText, MalformedText, Text(<<Full>>), Text(<<NoFirst, Full>>),
   Patterned(ReportInterval, 0)}

InitHost ==
  InitWith({f \in [Runs -> HostPayloads] :
              \A r \in Runs \ {1, 2} : f[r] = f[1]})

NextHost ==
  \E r \in Runs :
    StartAfter(r) \/ StartWorker(r) \/ processCSV(r) \/ HandleMessage(r)

SpecHost == InitHost /\ [][NextHost]_vars

\* No import is requested while the services are observed.
InitServices(instants) ==
  /\ InitImport({[r \in Runs |-> EmptyText]})
  /\ ~uniqueIndexes
  /\ InitScheduler(instants)
  /\ InitMonitor

(***************************************************************************)
(* SpecScheduler: the scheduler from Sunday 00:00:00.000 on, with requests *)
(* for the next two minutes, cancellations, and stop() and start().        *)
(***************************************************************************)
SchedulerRequests ==
  {[message |-> "hi", day |-> "sunday", time |-> <<"0", "0", ":", "0", "1">>],
   [message |-> "", day |-> "sunday", time |-> <<"0", "0", ":", "0", "1">>],
   [message |-> "hi", day |-> "someday", time |-> <<"0", "0", ":", "0", "1">>],
   [message |-> "hi", day |-> "sunday", time |-> <<"2", "4", ":", "0", "0">>]}

Reliable == {TRUE}

InsertOutcomes == BOOLEAN

\* Every request of the set is sent at most once.
Sent(req) == \E m \in Ids : ScheduledMessage[m].message = trim(req.message)

Requested(requests, outcomes) ==
  \/ \E req \in requests : ~Sent(req) /\ PostCreate(req)
  \/ \E m \in posts, ok \in outcomes : PostSchedule(m, ok)
  \/ \E m \in Ids : DeleteFind(m)
  \/ \E m \in deletes : DeleteCancel(m)

Scheduled(outcomes) ==
  \/ Tick
  \/ \E ok \in outcomes : loadPendingMessages(ok)
  \/ \E h \in DOMAIN timers, ok \in outcomes : TimerFire(h, ok)
  \/ \E e \in execs : ExecUpdate(e)
  \/ \E e \in execs : ExecDone(e)
  \/ \E ok \in outcomes : scheduleCronJob(ok)

InitSchedulerAtZero == InitServices({0})

NextScheduler ==
  \/ start
  \/ stop
  \/ Requested(SchedulerRequests, InsertOutcomes)
  \/ Scheduled(InsertOutcomes)

SpecScheduler == InitSchedulerAtZero /\ [][NextScheduler]_vars

(***************************************************************************)
(* SpecDelivery: the scheduler with a storage that accepts every insert    *)
(* and without stop().  The event loop runs every callback that is ready   *)
(* and every continuation whose storage call has answered, and time        *)
(* passes.                                                                 *)
(***************************************************************************)
NextDelivery ==
  \/ start
  \/ Requested(SchedulerRequests, Reliable)
  \/ Scheduled(Reliable)

EventLoopRuns ==
  /\ WF_vars(Tick)
  /\ WF_vars(\E m \in posts : PostSchedule(m, TRUE))
  /\ WF_vars(\E m \in deletes : DeleteCancel(m))
  /\ WF_vars(loadPendingMessages(TRUE))
  /\ WF_vars(\E h \in DOMAIN timers : TimerFire(h, TRUE))
  /\ WF_vars(\E e \in execs : ExecUpdate(e))
  /\ WF_vars(\E e \in execs : ExecDone(e))
  /\ WF_vars(scheduleCronJob(TRUE))

SpecDelivery ==
  InitSchedulerAtZero /\ [][NextDelivery]_vars /\ EventLoopRuns

(***************************************************************************)
(* SpecCancel: the scheduler without stop(), with DELETE requests for the  *)
(* message and for an id no document has, also when the handler has to     *)
(* reject them.                                                            *)
(***************************************************************************)
RequestIds == {1, 2}

NextCancel ==
  \/ start
  \/ Requested(SchedulerRequests, InsertOutcomes)
  \/ \E id \in RequestIds : DeleteReject(id)
  \/ Scheduled(InsertOutcomes)

SpecCancel == InitSchedulerAtZero /\ [][NextCancel]_vars

(***************************************************************************)
(* SpecDates: one request for a weekday and a time, sent at an instant of  *)
(* any weekday, before, at and after the requested minute.                 *)
(***************************************************************************)
Instant(day, hours, minutes, ticks) ==
  day * TicksPerDay + hours * TicksPerHour + minutes * TicksPerMinute + ticks

SampleInstants ==
  {Instant(day, hours, minutes, ticks) :
     day \in 0..(DaysPerWeek - 1), hours \in {0, 9, 23},
     minutes \in {0, 30, 59}, ticks \in 0..(TicksPerMinute - 1)}

DateRequests ==
  {[message |-> "hi", day |-> day, time |-> time] :
     day \in validDays \cup DOMAIN MixedCase,
     time \in {<<"0", "0", ":", "0", "0">>, <<"0", "9", ":", "3", "0">>,
               <<"2", "3", ":", "5", "9">>}}

InitDates == InitServices(SampleInstants)

NextDates == \E req \in DateRequests : ~Sent(req) /\ PostCreate(req)

SpecDates == InitDates /\ [][NextDates]_vars

(***************************************************************************)
(* SpecMonitor: the CPU monitor, its interval and its samples.             *)
(***************************************************************************)
Usages == {0, 69, 70, 71, 100}

\* The callback server.js passes, and another one.
Callbacks == {"onRestart", "other"}

NextMonitor ==
  \/ \E onRestart \in Callbacks : startMonitoring(onRestart)
  \/ stopMonitoring
  \/ IntervalFires
  \/ \E cpuUsage \in Usages : Sample(cpuUsage)

SpecMonitor == InitSchedulerAtZero /\ [][NextMonitor]_vars

(***************************************************************************)
(* Observations on the message channel and on storage.                     *)
(***************************************************************************)
Last(seq) == seq[Len(seq)]

IsTerminal(m) == m.type \in {"done", "error"}

HasDone(r) == msgs[r] # << >> /\ Last(msgs[r]).type = "done"

done(r) == Last(msgs[r])

Active(r) == pc[r] \notin {"idle", "exited", "rejected"}

Unique(coll, field) ==
  \A a, b \in 1..Len(coll) : coll[a][field] = coll[b][field] => a = b

UniqueNames ==
  /\ Unique(Agent, "name")
  /\ Unique(LOB, "category_name")
  /\ Unique(Carrier, "company_name")
  /\ Unique(UserAccount, "account_name")

\* The step ends the current row of run r.
RowEnds(r) ==
  /\ pc[r] \notin {"idle", "rejected", "start", "connect", "parse", "close",
                  "exited"}
  /\ <<i[r], j[r]>> # <<i'[r], j'[r]>>

(***************************************************************************)
(* C1: in every reachable state, under overlapping import runs, no two     *)
(* Agent records share a name, no two LOB records a category name, no two  *)
(* Carrier records a company name and no two UserAccount records an        *)
(* account name.  Stated as in the claim; two overlapping runs that both   *)
(* miss the same new label both create it.                                 *)
(***************************************************************************)
C1_UniqueNamesUnderOverlap == UniqueNames

(***************************************************************************)
(* C2: in every reachable state, under overlapping import runs, no two     *)
(* Policy records share a policy number.  Stated as in the claim.          *)
(***************************************************************************)
C2_UniquePolicyNumbersUnderOverlap == Unique(Policy, "policy_number")

(***************************************************************************)
(* C3: importing the same payload again after the previous run ended never *)
(* leaves two Agent, LOB, Carrier or UserAccount records with one name:    *)
(* a later run creates no reference record an earlier run created.         *)
(***************************************************************************)
C3_RetryKeepsNamesUnique ==
  /\ UniqueNames
  /\ \A r \in Runs :
       /\ pc[r] = "agentCreate" => findAgent(record(r).agent) = NoId
       /\ pc[r] = "lobCreate" => findLOB(record(r).category_name) = NoId
       /\ pc[r] = "carrierCreate" =>
            findCarrier(record(r).company_name) = NoId
       /\ pc[r] = "accountCreate" =>
            findUserAccount(record(r).account_name) = NoId

\* A retry has finished and met the records of the earlier run.
C3_Witness ==
  \E r \in Runs :
    /\ r > 1 /\ pc[r] = "exited" /\ HasDone(r) /\ done(r).processed >= 1
    /\ HasDone(1) /\ done(1).processed >= 1
    /\ Len(Agent) = 1 /\ Len(LOB) = 1 /\ Len(Carrier) = 1
    /\ Len(UserAccount) = 1

(***************************************************************************)
(* C4: a row whose policy number is already stored creates no Policy, is   *)
(* not recorded as an error and is counted in processed; and a re-import   *)
(* (a run started after a finished import of the same payload) leaves the  *)
(* Policy collection unchanged.  Stated as in the claim.                   *)
(***************************************************************************)
C4_StoredNumberRowIsSkipped ==
  /\ [][\A r \in Runs :
          (RowEnds(r) /\ Truthy(record(r).policy_number)
             /\ findPolicy(record(r).policy_number) # NoId)
            => /\ Policy' = Policy
               /\ errors'[r] = errors[r]
               /\ processed'[r] = processed[r] + 1]_vars
  /\ [][\A r \in Runs :
          (r > 1 /\ Active(r) /\ HasDone(1)) => Policy' = Policy]_vars

(***************************************************************************)
(* C5: when the same payload is imported twice in sequence, the processed  *)
(* count of the second done message equals that of the first.  Stated as   *)
(* in the claim.                                                           *)
(***************************************************************************)
C5_SameProcessedOnRetry ==
  \A r \in Runs :
    (r > 1 /\ HasDone(1) /\ HasDone(r)) =>
      done(r).processed = done(1).processed

(***************************************************************************)
(* C6 (as claimed): a Policy is created for a row only if the row resolved *)
(* all four references, Agent included, and both its dates are valid.      *)
(***************************************************************************)
RowDatesValid(r) ==
  /\ parseDate(record(r).policy_start_date) # NoDate
  /\ parseDate(record(r).policy_end_date) # NoDate

C6_PolicyNeedsFourReferences ==
  \A r \in Runs :
    pc[r] = "policyCreate" =>
      /\ agentId[r] # NoId /\ lobId[r] # NoId
      /\ carrierId[r] # NoId /\ userId[r] # NoId
      /\ RowDatesValid(r)

(***************************************************************************)
(* C6 (amended): a Policy is created for a row only if the row has a       *)
(* policy number, resolved LOB, Carrier and Person to an identity, and     *)
(* both its dates are valid; every stored Policy refers to a stored LOB,   *)
(* Carrier and Person and carries two dates.  The Agent is not required.   *)
(***************************************************************************)
C6_PolicyNeedsThreeReferences ==
  /\ \A r \in Runs :
       pc[r] = "policyCreate" =>
         /\ Truthy(record(r).policy_number)
         /\ lobId[r] \in 1..Len(LOB)
         /\ carrierId[r] \in 1..Len(Carrier)
         /\ userId[r] \in 1..Len(User)
         /\ RowDatesValid(r)
  /\ \A k \in 1..Len(Policy) :
       /\ Policy[k].policy_number # ""
       /\ Policy[k].policy_category_id \in 1..Len(LOB)
       /\ Policy[k].company_collection_id \in 1..Len(Carrier)
       /\ Policy[k].user_id \in 1..Len(User)
       /\ Policy[k].policy_start_date # NoDate
       /\ Policy[k].policy_end_date # NoDate

\* A Policy was stored by a finished run although no Agent was ever resolved.
C6_Witness ==
  \E r \in Runs :
    HasDone(r) /\ done(r).processed >= 1 /\ Len(Policy) >= 1 /\ Len(Agent) = 0

(***************************************************************************)
(* C7: an exception raised inside a row (a schema rejection of the Person, *)
(* a duplicate-key rejection of a create that lost a race) never ends the  *)
(* run: the step adds exactly one error entry for that row, posts nothing, *)
(* and moves to the next row or, after the last row, to the close; every   *)
(* row is consumed before the close, and no error message ever carries a   *)
(* row's failure.                                                          *)
(***************************************************************************)
RowErrorTexts == {"User validation failed", "E11000 duplicate key"}

C7_RowFailureContained ==
  /\ [](\A r \in Runs :
          /\ errors[r] = Len(errorsList[r])
          /\ pc[r] = "close" =>
               processed[r] + errors[r] = Len(records[r])
          /\ \A k \in 1..Len(msgs[r]) :
               msgs[r][k].type = "error" =>
                 msgs[r][k].error \notin RowErrorTexts
          /\ (pc[r] = "exited" /\ errors[r] > 0) =>
               \/ HasDone(r)
               \/ Last(msgs[r]) = ErrorMsg("close failed"))
  /\ [][\A r \in Runs :
          errors'[r] # errors[r] =>
            /\ errors'[r] = errors[r] + 1
            /\ Len(errorsList'[r]) = Len(errorsList[r]) + 1
            /\ Last(errorsList'[r]).row = i[r] + j[r] + 1
            /\ Last(errorsList'[r]).error \in RowErrorTexts
            /\ processed'[r] = processed[r]
            /\ msgs'[r] = msgs[r]
            /\ IF i[r] + j[r] + 1 < Len(records[r])
                 THEN pc'[r] = "agent" /\ i'[r] + j'[r] = i[r] + j[r] + 1
                 ELSE pc'[r] = "close"]_vars

\* A run lost a race on a create, recorded the row, processed a later row
\* and ended with done.
C7_Witness ==
  \E r \in Runs :
    /\ pc[r] = "exited" /\ HasDone(r)
    /\ done(r).errors >= 1 /\ done(r).processed >= 1
    /\ done(r).errorsList[1].row = 1
    /\ done(r).errorsList[1].error = "E11000 duplicate key"

(***************************************************************************)
(* C8: every run started with a payload, the empty one included, emits     *)
(* exactly one terminal message (done or error), after all its progress    *)
(* messages and as its last message.  Stated as in the claim, for a run    *)
(* that has ended.                                                         *)
(***************************************************************************)
C8_ExactlyOneTerminalMessage ==
  \A r \in Runs :
    pc[r] = "exited" =>
      /\ Len(msgs[r]) >= 1
      /\ IsTerminal(Last(msgs[r]))
      /\ \A k \in 1..(Len(msgs[r]) - 1) : msgs[r][k].type = "progress"

(***************************************************************************)
(* C9: the progress messages of a run are exactly those for the positive   *)
(* multiples of ReportInterval (50) reached by processed, once each, in    *)
(* increasing order, each carrying {processed, total}; a 205-row payload   *)
(* with no failing row posts progress at 50, 100, 150, 200 and then done.  *)
(***************************************************************************)
Progress(r) == SelectSeq(msgs[r], LAMBDA m : m.type = "progress")

C9_ProgressCadence ==
  \A r \in Runs :
    /\ Len(Progress(r)) = processed[r] \div ReportInterval
    /\ \A k \in 1..Len(Progress(r)) :
         Progress(r)[k] = ProgressMsg(k * ReportInterval, Len(records[r]))
    /\ (HasDone(r) /\ done(r).total = 205 /\ done(r).errors = 0) =>
         msgs[r] = <<ProgressMsg(50, 205), ProgressMsg(100, 205),
                     ProgressMsg(150, 205), ProgressMsg(200, 205),
                     DoneMsg(205, 0, 205, << >>)>>

C9_Witness ==
  \E r \in Runs :
    /\ HasDone(r) /\ done(r).total = 205 /\ done(r).errors = 0
    /\ Len(msgs[r]) = 5

(***************************************************************************)
(* C10: in the done message errors is the number of rows that raised an    *)
(* exception and errorsList holds the first min(errors, 10) entries in row *)
(* order; 15 failing rows give errors = 15 and an errorsList of length 10. *)
(* In a run that is alone on storage the rows that raise are those whose   *)
(* Person the schema rejects and no lookup can replace: no first name.     *)
(***************************************************************************)
FailingRows(r) ==
  {k \in 1..Len(records[r]) : ~Truthy(records[r][k].firstname)}

C10_ErrorCountAndCap ==
  \A r \in Runs :
    HasDone(r) =>
      LET d == done(r)
          firstTen == {f \in FailingRows(r) :
                         Cardinality({g \in FailingRows(r) : g <= f})
                           <= ErrorsListCap}
      IN /\ d.errors = Cardinality(FailingRows(r))
         /\ Len(d.errorsList) = Min(d.errors, ErrorsListCap)
         /\ {d.errorsList[k].row : k \in 1..Len(d.errorsList)} = firstTen
         /\ \A k \in 1..(Len(d.errorsList) - 1) :
              d.errorsList[k].row < d.errorsList[k + 1].row
         /\ d.errors = 15 => Len(d.errorsList) = 10

C10_Witness ==
  \E r \in Runs :
    HasDone(r) /\ done(r).errors = 15 /\ Len(done(r).errorsList) = 10

(***************************************************************************)
(* C11: a row that lacks a field required for Policy creation (no policy   *)
(* number, no LOB or Carrier label, a missing or unparseable start or end  *)
(* date) creates no Policy, is counted in processed, adds nothing to       *)
(* errors or errorsList, and the run goes on to the next row.  Stated as   *)
(* in the claim.                                                           *)
(***************************************************************************)
LacksPolicyField(rec) ==
  \/ rec.policy_number = ""
  \/ rec.category_name = ""
  \/ rec.company_name = ""
  \/ parseDate(rec.policy_start_date) = NoDate
  \/ parseDate(rec.policy_end_date) = NoDate

C11_SkippedRowIsProcessed ==
  [][\A r \in Runs :
       (RowEnds(r) /\ LacksPolicyField(record(r)))
         => /\ Policy' = Policy
            /\ processed'[r] = processed[r] + 1
            /\ errors'[r] = errors[r]
            /\ errorsList'[r] = errorsList[r]
            /\ pc'[r] \in {"agent", "close"}]_vars

(***************************************************************************)
(* C12 (as claimed): within one run every label of a reference entity      *)
(* (Agent, LOB, Carrier, UserAccount) is looked up in storage exactly      *)
(* once, however many rows carry it.                                       *)
(***************************************************************************)
ReferenceModels == {"Agent", "LOB", "Carrier", "UserAccount"}

Count(log, call) == Cardinality({k \in 1..Len(log) : log[k] = call})

Calls(log) == {log[k] : k \in 1..Len(log)}

CacheOf(r, model) ==
  CASE model = "Agent" -> agentCache[r]
    [] model = "LOB" -> lobCache[r]
    [] model = "Carrier" -> carrierCache[r]
    [] model = "UserAccount" -> accountCache[r]

StoresOnce(r, at, old, new, field, cache, cacheNew) ==
  (pc[r] = at /\ pc'[r] # at /\ Len(new) > Len(old))
    => /\ record(r)[field] \notin DOMAIN cache
       /\ record(r)[field] \in DOMAIN cacheNew
       /\ cacheNew[record(r)[field]] = Len(new)

ErrorMessages(r) == SelectSeq(msgs[r], LAMBDA m : m.type = "error")

C13_FailedRunClosesConnection ==
  \A r \in Runs :
    (pc[r] = "exited" /\ ErrorMessages(r) # << >>) =>
      /\ Len(ErrorMessages(r)) = 1
      /\ ~connected[r]

(***************************************************************************)
(* C14: a run whose payload cannot be parsed as delimited text posts one   *)
(* error message and nothing else (no progress, no done), processes no     *)
(* row, makes no storage call, and no step of it changes a collection.     *)
(***************************************************************************)
C14_ParseFailureLeavesNoTrace ==
  /\ [](\A r \in Runs :
          csvData[r].kind = "malformed" =>
            /\ records[r] = << >>
            /\ processed[r] = 0 /\ errors[r] = 0 /\ errorsList[r] = << >>
            /\ findOneCalls[r] = << >>
            /\ Len(msgs[r]) <= 1
            /\ \A k \in 1..Len(msgs[r]) : msgs[r][k].type = "error"
            /\ pc[r] = "exited" => Len(msgs[r]) = 1
            /\ pc[r] \in {"idle", "rejected", "start", "connect", "parse",
                          "exited"})
  /\ [][\A r \in Runs :
          (csvData[r].kind = "malformed" /\ pc'[r] # pc[r]) =>
            storage' = storage]_vars

\* After an import that stored records, a run connected, failed to parse its
\* payload and exited; the host handled its error message.
C14_Witness ==
  \E r \in Runs :
    /\ csvData[r].kind = "malformed" /\ pc[r] = "exited"
    /\ msgs[r] = <<ErrorMsg("parse failed")>>
    /\ hostLog[r] = msgs[r]
    /\ Len(Policy) = 1 /\ Len(User) = 1

(***************************************************************************)
(* C15: every row whose first name or email is empty creates one new       *)
(* Person when it is processed: its Person step is never answered from     *)
(* the cache or from storage, and it stores one User document.  Stated as  *)
(* in the claim.                                                           *)
(***************************************************************************)
LacksNameOrEmail(rec) == rec.firstname = "" \/ rec.email = ""

\* The step completes getOrCreateUser for the current row of run r.
UserResolved(r) ==
  /\ pc[r] \in {"user", "userCreate"}
  /\ pc'[r] \notin {"user", "userCreate"}

C15_NoNameOrEmailAlwaysCreates ==
  [][\A r \in Runs :
       (UserResolved(r) /\ LacksNameOrEmail(record(r)))
         => /\ pc[r] = "userCreate"
            /\ Len(User') = Len(User) + 1
            /\ userId'[r] = Len(User')]_vars

(***************************************************************************)
(* C16: when the current row has a first name and an email and storage     *)
(* holds a Person with that first name and email, getOrCreateUser returns  *)
(* the identity of that Person and creates none; a Person is created for   *)
(* such a row only when storage holds no match.  This covers a second row  *)
(* of the run with the same first name and email and another raw dob       *)
(* string: the cache misses, the lookup finds the same stored Person.      *)
(***************************************************************************)
HasNameAndEmail(rec) == rec.firstname # "" /\ rec.email # ""

Extends(old, new) ==
  /\ Len(new) \in {Len(old), Len(old) + 1}
  /\ \A k \in 1..Len(old) : new[k] = old[k]

Stored == Len(Agent) + Len(LOB) + Len(Carrier) + Len(UserAccount)
            + Len(User) + Len(Policy)

C17_RunOnlyAddsRecords ==
  [][/\ Extends(Agent, Agent') /\ Extends(LOB, LOB')
     /\ Extends(Carrier, Carrier') /\ Extends(UserAccount, UserAccount')
     /\ Extends(User, User') /\ Extends(Policy, Policy')
     /\ Stored' \in {Stored, Stored + 1}]_vars

\* A retry resolved, for a row with an unparseable dob, the Person an earlier
\* run stored with a dob; the stored dob is as it was.
C17_Witness ==
  \E r \in Runs :
    /\ r > 1 /\ HasDone(1) /\ pc[r] = "account"
    /\ parseDate(record(r).dob) = NoDate
    /\ userId[r] = 1 /\ Len(User) = 1 /\ User[1].dob # NoDate
    /\ Len(Policy) >= 2

(***************************************************************************)
(* C18: resolving an empty label for Agent, LOB, Carrier or UserAccount    *)
(* returns no identity and raises nothing: the step goes on to the next    *)
(* resolver with no storage call and with the caches, the collections, the *)
(* counters and the messages unchanged.                                    *)
(***************************************************************************)
EmptyLabelPassed(r, at, field, next) ==
  (pc[r] = at /\ record(r)[field] = "" /\ pc'[r] # pc[r])
    => /\ pc'[r] = next
       /\ storage' = storage
       /\ caches' = caches
       /\ calls' = calls
       /\ ids' = ids
       /\ counters' = counters
       /\ msgs' = msgs

C18_EmptyLabelResolvesToNothing ==
  /\ [](\A r \in Runs :
          /\ (pc[r] \in {"lob", "carrier", "user", "userCreate", "account",
                         "policy", "policyCreate"}
                /\ record(r).agent = "") => agentId[r] = NoId
          /\ (pc[r] \in {"carrier", "user", "userCreate", "account", "policy",
                         "policyCreate"}
                /\ record(r).category_name = "") => lobId[r] = NoId
          /\ (pc[r] \in {"user", "userCreate", "account", "policy",
                         "policyCreate"}
                /\ record(r).company_name = "") => carrierId[r] = NoId
          /\ \A call \in Calls(findOneCalls[r]) :
               call.model \in ReferenceModels => call.key # "")
  /\ [][\A r \in Runs :
          /\ EmptyLabelPassed(r, "agent", "agent", "lob")
          /\ EmptyLabelPassed(r, "lob", "category_name", "carrier")
          /\ EmptyLabelPassed(r, "carrier", "company_name", "user")
          /\ EmptyLabelPassed(r, "account", "account_name", "policy")]_vars

\* Two rows without an account name have passed getOrCreateUserAccount, the
\* first one was processed: no UserAccount is stored, cached or asked for.
C18_Witness ==
  \E r \in Runs :
    /\ pc[r] = "policy" /\ j[r] = 1 /\ processed[r] = 1
    /\ record(r).account_name = "" /\ records[r][1].account_name = ""
    /\ UserAccount = << >> /\ accountCache[r] = << >>
    /\ \A call \in Calls(findOneCalls[r]) : call.model # "UserAccount"

(***************************************************************************)
(* C19: for a payload of two rows that name the same carrier, one fully    *)
(* valid and one without a policy number, imported on empty storage (and   *)
(* again after that), a run that consumed its rows has processed 2 and     *)
(* errors 0, its done message is {processed: 2, errors: 0, total: 2},      *)
(* storage holds exactly one Carrier of that name and exactly one Policy,  *)
(* and the run looked the carrier up once: the row skipped for Policy      *)
(* creation had its references resolved.                                   *)
(***************************************************************************)
ScenarioPayloads == {Text(<<Full, NoPolicy>>), Text(<<NoPolicy, Full>>)}

C19_TwoRowsOneCarrier ==
  \A r \in Runs :
    (csvData[r] \in ScenarioPayloads /\ pc[r] \in {"close", "exited"}
       /\ records[r] # << >>)
      => /\ processed[r] = 2 /\ errors[r] = 0
         /\ Carrier = <<[company_name |-> "c1"]>>
         /\ Len(Policy) = 1 /\ Policy[1].policy_number = "p1"
         /\ Count(findOneCalls[r], [model |-> "Carrier", key |-> "c1"]) = 1
         /\ Count(findOneCalls[r], [model |-> "UserAccount", key |-> "ac1"])
              = 1
         /\ HasDone(r) => msgs[r] = <<DoneMsg(2, 0, 2, << >>)>>

\* The first import of the scenario, with the row without a policy number
\* first, has ended with done.
C19_Witness ==
  /\ csvData[1] = Text(<<NoPolicy, Full>>)
  /\ pc[1] = "exited" /\ pc[2] = "idle"
  /\ msgs[1] = <<DoneMsg(2, 0, 2, << >>)>>
  /\ Len(Carrier) = 1 /\ Len(Policy) = 1

(***************************************************************************)
(* C20: the upload request is answered 202 in the step that starts the     *)
(* worker, so before any message of the run is handled and whatever the    *)
(* run ends with, and the answer is never changed; the listener is         *)
(* registered in the same step, so the messages the host has handled are   *)
(* exactly the messages dispatched so far, in the order the worker posted  *)
(* them: none is lost.                                                     *)
(***************************************************************************)
C20_AcknowledgedAtStart ==
  /\ [](\A r \in Runs :
          /\ pc[r] \notin {"idle", "rejected"} =>
               response[r] = Accepted /\ listening[r]
          /\ pc[r] = "idle" => response[r] = NoResponse
          /\ pc[r] = "rejected" =>
               response[r] \in {BadRequest, ServerError} /\ msgs[r] = << >>
          /\ delivered[r] <= Len(msgs[r])
          /\ hostLog[r] = SubSeq(msgs[r], 1, delivered[r])
          /\ fileRemoved[r] =>
               \/ response[r] = ServerError
               \/ \E k \in 1..Len(hostLog[r]) : IsTerminal(hostLog[r][k]))
  /\ [][\A r \in Runs :
          /\ response[r] # NoResponse => response'[r] = response[r]
          /\ response'[r] # response[r] =>
               (response'[r] = Accepted <=> pc'[r] = "start")
          /\ listening[r] => listening'[r]]_vars

\* A run answered 202 ended with done after a progress message, another one
\* ended with an error message; the host has handled all their messages.
C20_Witness ==
  \E r, q \in Runs :
    /\ response[r] = Accepted /\ pc[r] = "exited"
    /\ Len(msgs[r]) = 2 /\ HasDone(r) /\ hostLog[r] = msgs[r]
    /\ response[q] = Accepted /\ pc[q] = "exited"
    /\ msgs[q] # << >> /\ Last(msgs[q]).type = "error"
    /\ hostLog[q] = msgs[q]
    /\ fileRemoved[r] /\ fileRemoved[q]

(***************************************************************************)
(* C26: in every done message processed + errors = total and total is the  *)
(* number of rows parsed from the payload; while the rows are walked the   *)
(* two counters together count exactly the rows already left behind, so    *)
(* each row is counted once, as processed or as an error.                  *)
(***************************************************************************)
Walking(r) ==
  pc[r] \notin {"idle", "rejected", "start", "connect", "parse", "close",
                "exited"}

RowsLeftBehind(r) == i[r] + j[r]

C26_DoneCountsEveryRowOnce ==
  \A r \in Runs :
    /\ Walking(r) => processed[r] + errors[r] = RowsLeftBehind(r)
    /\ HasDone(r) =>
         /\ done(r).processed + done(r).errors = done(r).total
         /\ done(r).total = Len(parse(csvData[r]))
         /\ done(r).processed = processed[r]
         /\ done(r).errors = errors[r]

\* A done message of a payload longer than a batch that counted rows of
\* both kinds.
C26_Witness ==
  \E r \in Runs :
    /\ HasDone(r) /\ done(r).total > batchSize
    /\ done(r).processed > 0 /\ done(r).errors > 0

(***************************************************************************)
(* C27: every error entry carries the 1-based position in the payload of   *)
(* the row that failed, whatever the batch the row is in, the exception's  *)
(* message, and the row's policy number or "N/A" when the row has none;    *)
(* a failing row adds exactly one entry and increments errors by one.      *)
(***************************************************************************)
C27_ErrorEntryNamesItsRow ==
  /\ [](\A r \in Runs :
          /\ errors[r] = Len(errorsList[r])
          /\ \A k \in 1..Len(errorsList[r]) :
               LET entry == errorsList[r][k]
               IN /\ entry.row \in 1..Len(records[r])
                  /\ entry.row \in FailingRows(r)
                  /\ entry.record =
                       IF records[r][entry.row].policy_number = ""
                         THEN "N/A"
                         ELSE records[r][entry.row].policy_number
                  /\ entry.error = "User validation failed"
                  /\ \A h \in 1..(k - 1) : errorsList[r][h].row < entry.row)
  /\ [][\A r \in Runs :
          (RowEnds(r) /\ RowsLeftBehind(r) + 1 \in FailingRows(r)) =>
            /\ errors'[r] = errors[r] + 1
            /\ errorsList'[r] =
                 Append(errorsList[r],
                        [row |-> RowsLeftBehind(r) + 1,
                         error |-> "User validation failed",
                         record |-> IF record(r).policy_number = ""
                                      THEN "N/A"
                                      ELSE record(r).policy_number])]_vars

\* Entries for the last row of the first batch and for the first row of the
\* second, the latter of a row without a policy number.
C27_Witness ==
  \E r \in Runs :
    /\ HasDone(r)
    /\ done(r).errorsList =
         <<[row |-> batchSize, error |-> "User validation failed",
            record |-> "p1"],
           [row |-> batchSize + 1, error |-> "User validation failed",
            record |-> "N/A"]>>

(***************************************************************************)
(* C28: a row with an empty account name whose policy number, LOB, Carrier *)
(* and Person are resolved, whose two dates are valid and whose policy     *)
(* number is not stored creates a Policy: the account step of such a row   *)
(* goes on to the Policy step without touching the row's identities, and   *)
(* the Policy step stores the row's Policy.                                *)
(***************************************************************************)
C28_EmptyAccountStillCreatesPolicy ==
  [][\A r \in Runs :
       (Walking(r) /\ record(r).account_name = "") =>
         /\ (pc[r] = "account" /\ pc'[r] # "account") =>
              /\ pc'[r] = "policy"
              /\ UserAccount' = UserAccount
              /\ <<lobId'[r], carrierId'[r], userId'[r]>> =
                   <<lobId[r], carrierId[r], userId[r]>>
         /\ (/\ pc[r] = "policy" /\ pc'[r] # "policy"
             /\ record(r).policy_number # ""
             /\ lobId[r] # NoId /\ carrierId[r] # NoId /\ userId[r] # NoId
             /\ RowDatesValid(r)
             /\ findPolicy(record(r).policy_number) = NoId) =>
              pc'[r] = "policyCreate"
         /\ (pc[r] = "policyCreate" /\ pc'[r] # "policyCreate") =>
              /\ Len(Policy') = Len(Policy) + 1
              /\ Last(Policy').policy_number = record(r).policy_number
              /\ processed'[r] = processed[r] + 1]_vars

\* A payload whose only row has no account name ended with its Policy
\* stored and no UserAccount at all.
C28_Witness ==
  \E r \in Runs :
    /\ HasDone(r) /\ Len(records[r]) = 1
    /\ records[r][1].account_name = ""
    /\ UserAccount = << >>
    /\ \E k \in 1..Len(Policy) :
         Policy[k].policy_number = records[r][1].policy_number

(***************************************************************************)
(* C23: for every weekday, every HH:mm time and every current instant the  *)
(* date getNextScheduledDate returns is strictly after now, at most 7 days *)
(* after now, on the requested weekday, at the requested hour and minute;  *)
(* when the requested day and time of the current week is not after now,   *)
(* it is that day and time of the next week.  The clock does not advance   *)
(* in SpecDates, so now is the clock.                                      *)
(***************************************************************************)
TicksPerWeek == DaysPerWeek * TicksPerDay

\* The requested day and time in the week of t, weeks starting on Sunday.
InWeekOf(t, doc) ==
  (t - (t % TicksPerWeek))
    + dayMap[doc.scheduled_day] * TicksPerDay
    + Number(SubSeq(doc.scheduled_time, 1, 2)) * TicksPerHour
    + Number(SubSeq(doc.scheduled_time, 4, 5)) * TicksPerMinute

C23_NextOccurrence ==
  \A m \in Ids :
    LET doc == ScheduledMessage[m]
        date == doc.scheduled_datetime
    IN /\ date > clock
       /\ date <= clock + TicksPerWeek
       /\ getDay(date) = dayMap[doc.scheduled_day]
       /\ getHours(date) = Number(SubSeq(doc.scheduled_time, 1, 2))
       /\ getMinutes(date) = Number(SubSeq(doc.scheduled_time, 4, 5))
       /\ InWeekOf(clock, doc) <= clock =>
            date = InWeekOf(clock, doc) + TicksPerWeek

\* A request for today's weekday and the minute that has just begun.
C23_Witness ==
  \E m \in Ids :
    /\ getDay(clock) = dayMap[ScheduledMessage[m].scheduled_day]
    /\ clock % TicksPerMinute = 1
    /\ ScheduledMessage[m].scheduled_datetime = clock - 1 + TicksPerWeek

(***************************************************************************)
(* Observations on the scheduler.                                          *)
(***************************************************************************)
MessagesOf(m) ==
  {k \in 1..Len(Message) : Message[k].scheduled_message_id = m}

Cancelled(m) == ScheduledMessage[m].status = "cancelled"

\* stop() has returned and start() has not been called since.
Stopped == starts > 0 /\ ~isRunning

(***************************************************************************)
(* C21: a ScheduledMessage cancelled through DELETE is never executed      *)
(* afterwards: from the step that set its status to cancelled on, no       *)
(* Message is inserted for it and its status stays cancelled, whatever the *)
(* loader, the timers and the cron check do.  Stated as in the claim.      *)
(***************************************************************************)
C21_CancelledIsNeverExecuted ==
  [][\A m \in Ids :
       Cancelled(m) =>
         /\ ScheduledMessage'[m].status = "cancelled"
         /\ MessagesOf(m)' = MessagesOf(m)]_vars

(***************************************************************************)
(* C22: a pending ScheduledMessage whose time lies within the horizon and  *)
(* that nobody cancels gets, once its time has come, a Message with its    *)
(* content and the status completed; no Message is inserted before the     *)
(* scheduled time of its ScheduledMessage.                                 *)
(***************************************************************************)
Delivered(m) ==
  /\ m \in Ids
  /\ ScheduledMessage[m].status = "completed"
  /\ \E k \in MessagesOf(m) : Message[k].content = ScheduledMessage[m].message

Awaited(m) ==
  /\ m \in Ids
  /\ Pending(m)
  /\ ScheduledMessage[m].scheduled_datetime <= MaxTime

CancelRequested(m) == m \in Ids /\ (m \in deletes \/ Cancelled(m))

C22_DeliveredAtItsTime ==
  /\ [](\A k \in 1..Len(Message) :
          LET doc == ScheduledMessage[Message[k].scheduled_message_id]
          IN /\ Message[k].inserted_at >= doc.scheduled_datetime
             /\ Message[k].content = doc.message)
  /\ [](\A m \in Ids :
          ScheduledMessage[m].status = "completed" => MessagesOf(m) # {})
  /\ (Awaited(1) ~> (Delivered(1) \/ CancelRequested(1)))

\* The message was inserted in the tick of its scheduled time and the
\* status is completed, with no cancellation under way.
C22_Witness ==
  /\ Delivered(1) /\ 1 \notin deletes
  /\ \E k \in MessagesOf(1) :
       Message[k].inserted_at = ScheduledMessage[1].scheduled_datetime

(***************************************************************************)
(* C24: a sample taken while monitoring is active triggers the restart     *)
(* (monitoring stopped, restart callback invoked) if and only if the       *)
(* sampled usage exceeds the threshold of 70%.  Stated as in the claim.    *)
(***************************************************************************)
C24_RestartIffAboveThreshold ==
  \A k \in 1..Len(samples) :
    samples[k].monitoring =>
      (samples[k].restart <=> samples[k].cpuUsage > threshold)

(***************************************************************************)
(* C25: when the insert of an execution is rejected, the status of the     *)
(* ScheduledMessage becomes failed with the error's message recorded and   *)
(* no Message is stored for it, and the scheduler is left as it was: it    *)
(* still runs and the jobs and timers of other messages are untouched.     *)
(* Stated as in the claim.                                                 *)
(***************************************************************************)
C25_FailedInsertLeavesNoMessage ==
  /\ [](\A m \in Ids :
          ScheduledMessage[m].status = "failed" =>
            /\ ScheduledMessage[m].error_message = "insert failed"
            /\ MessagesOf(m) = {})
  /\ [][\A e \in execs :
          (e.pc = "update" /\ ~e.inserted /\ e \notin execs') =>
            /\ ScheduledMessage'[e.msg].status = "failed"
            /\ ScheduledMessage'[e.msg].error_message = "insert failed"
            /\ <<Message, isRunning, jobs, timers>>'
                 = <<Message, isRunning, jobs, timers>>]_vars

(***************************************************************************)
(* C29: at most one Message is ever inserted for a ScheduledMessage,       *)
(* whatever the order of the POST handler's scheduleMessage, the loader,   *)
(* the timers and the cron check.  Stated as in the claim.                 *)
(***************************************************************************)
C29_AtMostOneMessage ==
  \A m \in Ids : Cardinality(MessagesOf(m)) <= 1

(***************************************************************************)
(* C30: after stop() has returned and until start() is called again, the   *)
(* jobs map is empty and no Message is inserted.  Stated as in the claim.  *)
(***************************************************************************)
C30_StoppedStaysStopped ==
  /\ [](Stopped => jobs = << >>)
  /\ [][Stopped => Message' = Message]_vars

(***************************************************************************)
(* C31: the restart callback set by a startMonitoring call is invoked at   *)
(* most once, also when several interval callbacks await their sample at   *)
(* once and each samples a usage at or above the threshold.  A             *)
(* startMonitoring call while monitoring is active starts no interval and  *)
(* leaves the callback as it is.  Stated as in the claim.                  *)
(***************************************************************************)
C31_OneRestartPerStart ==
  /\ [](restarts <= 1)
  /\ [][isMonitoring =>
          /\ restartCallback' = restartCallback
          /\ monitorInterval' => monitorInterval]_vars

(***************************************************************************)
(* C32: a DELETE answered for a ScheduledMessage whose status is not       *)
(* pending, and which no DELETE handler has read as pending, is answered   *)
(* 400 and leaves the statuses, the jobs map, the timers and the Messages  *)
(* collection unchanged; a DELETE for an id without a document is answered *)
(* 404 with the same state left unchanged.                                 *)
(***************************************************************************)
C32_RejectedDeleteChangesNothing ==
  [][deleteResponse' # deleteResponse =>
       LET id == deleteResponse'.id
       IN /\ id \notin Ids =>
               /\ deleteResponse'.status = NotFound
               /\ UNCHANGED <<ScheduledMessage, jobs, timers, Message>>
          /\ (id \in Ids /\ id \notin deletes
                /\ ScheduledMessage[id].status # "pending") =>
               /\ deleteResponse'.status = BadRequest
               /\ UNCHANGED <<ScheduledMessage, jobs, timers, Message>>]_vars

\* The handler has answered 400 for the message after its execution
\* completed, and the message and its Message record are as they were.
C32_Witness ==
  /\ deleteResponse = [id |-> 1, status |-> BadRequest]
  /\ Delivered(1)
  /\ jobs = << >>

(***************************************************************************)
(* C33: within one run, a row answered from the Person cache has the same  *)
(* first name, email and raw date-of-birth string as every earlier row of  *)
(* the run with the same cache key: the key is injective over the triples. *)
(* Stated as in the claim.                                                 *)
(***************************************************************************)
Person(row) == <<row.firstname, row.email, row.dob>>

C33_SameEntrySamePerson ==
  \A r \in Runs :
    (pc[r] = "user" /\ userKey(record(r)) \in DOMAIN userCache[r]) =>
      \A k \in 1..(i[r] + j[r]) :
        userKey(records[r][k]) = userKey(record(r)) =>
          Person(records[r][k]) = Person(record(r))

====
